---- MODULE Spec2Model ----
(***************************************************************************)
(* A model of the workflow graph core of n8n-workflow-builder:             *)
(*   - the layout functions (utils/positioning),                           *)
(*   - the WorkflowBuilder class (services/workflowBuilder),               *)
(*   - validateWorkflowSpec (utils/validation).                            *)
(*                                                                         *)
(* JavaScript values are modelled as follows.                              *)
(*   - A string-typed field that is absent holds Undefined; a field that   *)
(*     holds a value that is not a string holds NotAString.                *)
(*   - A number-typed optional field that is absent holds None.            *)
(*   - A position is a record [form, x, y]: form "array" is [x, y], form   *)
(*     "object" is {x, y}, form "none" is an absent position.              *)
(*   - An array that the code fills by index or by push (the `main` port   *)
(*     array) is a record [length, at] where `at` maps the indices that    *)
(*     hold a value to it: an index below length that is not in            *)
(*     DOMAIN at is a hole of a sparse array.                              *)
(*   - An object used as a dictionary is a function whose DOMAIN is the    *)
(*     set of its own keys.                                                *)
(***************************************************************************)
EXTENDS Integers, Sequences, FiniteSets, TLC

VARIABLES
    nodes,            \* WorkflowBuilder.nodes
    connections,      \* WorkflowBuilder.connections
    nextPosition,     \* WorkflowBuilder.nextPosition (the layout cursor)
    workflowName,     \* WorkflowBuilder.workflowName
    workflowSettings, \* WorkflowBuilder.workflowSettings
    workflowActive,   \* WorkflowBuilder.workflowActive
    workflowTags,     \* WorkflowBuilder.workflowTags
    lastCall,         \* the last builder method called, its arguments and outcome
    exported,         \* a spec exportWorkflow() returned and its caller still holds
    placed,           \* the positions addNode took from the cursor since the cursor was last set
    input,            \* the object handed to validateWorkflowSpec, as it is on the heap
    original,         \* the value that object had when validateWorkflowSpec was called
    output,           \* what validateWorkflowSpec returned or threw
    phase,            \* "builder", "layout": a builder session; "ready"/"done": a
                      \* validateWorkflowSpec call; "asked"/"placed": a calculateBranchPosition
                      \* call; "legacy": a call of the earlier validateWorkflowSpec;
                      \* "server": the tool dispatcher
    server            \* the tool dispatcher: the calls it is handling, the builders they
                      \* created and the module-level DEFAULT_POSITION object

builderVars == <<nodes, connections, nextPosition, workflowName, workflowSettings,
                 workflowActive, workflowTags, lastCall, exported, placed>>
validatorVars == <<input, original, output, phase, server>>
vars == <<nodes, connections, nextPosition, workflowName, workflowSettings,
          workflowActive, workflowTags, lastCall, exported, placed,
          input, original, output, phase, server>>

-----------------------------------------------------------------------------
(* Bounds of the model *)

\* a builder session: nodes, edges, the largest output port, branches per call
MaxNodes == 2
MaxEdges == 2
MaxPort == 2
MaxBranches == MaxNodes - 1

\* a layout session: branches per addBranches call, and the nodes and edges
\* that a source and one full fan need
MaxFan == 3
MaxLayoutNodes == MaxFan + 1
MaxLayoutEdges == MaxFan

\* builder calls made while a caller holds an exported spec
MaxLater == 1

\* the largest totalBranches handed to calculateBranchPosition
MaxTotalBranches == 6

-----------------------------------------------------------------------------
(* JavaScript values *)

Undefined == "<undefined>"
NotAString == "<not-a-string>"
None == -1

\* `!s` for a string-typed field
FalsyStr(s) == s = Undefined \/ s = ""

\* `n || 0` for a number-typed field
OrZero(n) == IF n = None THEN 0 ELSE n

\* `n || 1`
OrOne(n) == IF n = None \/ n = 0 THEN 1 ELSE n

EmptyObject == <<>>

HasKey(obj, k) == k \in DOMAIN obj

\* { ...a, ...b }
Spread(a, b) == [k \in (DOMAIN a) \cup (DOMAIN b) |-> IF k \in DOMAIN b THEN b[k] ELSE a[k]]

\* obj[k] = v
SetKey(obj, k, v) == [x \in (DOMAIN obj) \cup {k} |-> IF x = k THEN v ELSE obj[x]]

\* [first]
ArrayOf(first) == [length |-> 1, at |-> [i \in {0} |-> first]]

\* arr.push(v)
ArrayPush(arr, v) ==
    [length |-> arr.length + 1,
     at |-> [i \in (DOMAIN arr.at) \cup {arr.length} |-> IF i = arr.length THEN v ELSE arr.at[i]]]

\* every index below length holds a value
Dense(arr) == DOMAIN arr.at = 0 .. (arr.length - 1)

-----------------------------------------------------------------------------
(* utils/positioning *)

DEFAULT_POSITION == [x |-> 100, y |-> 240]

NODE_HORIZONTAL_SPACING == 200

NODE_VERTICAL_SPACING == 140

calculateNextPosition(current) ==
    [x |-> current.x + NODE_HORIZONTAL_SPACING, y |-> current.y]

\* mutant of calculateBranchPosition: the centre is rounded up
calculateBranchPositionCeil(basePosition, branchIndex, totalBranches) ==
    LET centerBranchOffset == (totalBranches + 1) \div 2
        yOffset == (branchIndex - centerBranchOffset) * NODE_VERTICAL_SPACING
    IN  [x |-> basePosition.x + NODE_HORIZONTAL_SPACING, y |-> basePosition.y + yOffset]

calculateBranchPosition(basePosition, branchIndex, totalBranches) ==
    LET centerBranchOffset == totalBranches \div 2
        yOffset == (branchIndex - centerBranchOffset) * NODE_VERTICAL_SPACING
    IN  [x |-> basePosition.x + NODE_HORIZONTAL_SPACING, y |-> basePosition.y + yOffset]

NoPosition == [form |-> "none", x |-> 0, y |-> 0]

ArrayPosition(x, y) == [form |-> "array", x |-> x, y |-> y]

ObjectPosition(x, y) == [form |-> "object", x |-> x, y |-> y]

-----------------------------------------------------------------------------
(* services/workflowBuilder: helpers *)

\* uuidv4(): an id no node of the list carries
UuidPool == <<"u1", "u2", "u3", "u4", "u5", "u6", "u7", "u8">>

uuidv4(ns) ==
    LET used == {ns[i].id : i \in 1 .. Len(ns)}
        free == {i \in 1 .. Len(UuidPool) : UuidPool[i] \notin used}
    IN  UuidPool[CHOOSE i \in free : \A j \in free : i <= j]

\* this.nodes.some(node => node.id === id)
NodeExists(ns, id) == \E i \in 1 .. Len(ns) : ns[i].id = id

\* this.nodes.find(node => node.id === id), for an id that exists
FindNode(ns, id) ==
    ns[CHOOSE i \in 1 .. Len(ns) : ns[i].id = id /\ \A j \in 1 .. (i - 1) : ns[j].id # id]

DefaultSettings ==
    [saveExecutionProgress |-> TRUE,
     saveManualExecutions |-> TRUE,
     saveDataErrorExecution |-> "all",
     saveDataSuccessExecution |-> "none"]

InitialBuilderSettings == SetKey(DefaultSettings, "executionOrder", "v1")

\* a call record: the method, how it ended, the ids and the output index it was
\* given, whether addNode was given no position, the branchTypes it was given and
\* the nodes it returned
NoCall ==
    [op |-> "new", status |-> "ok", source |-> Undefined, target |-> Undefined, index |-> 0,
     auto |-> FALSE, branchTypes |-> <<>>, returned |-> <<>>]

Call(op, status) == [NoCall EXCEPT !.op = op, !.status = status]

-----------------------------------------------------------------------------
(* services/workflowBuilder: the methods as functions of the builder's fields *)

\* mutant of BuilderAddNode: the cursor advances after every node
BuilderAddNodeAlwaysAdvances(ns, np, nodeData) ==
    LET explicit == nodeData.position.form # "none"
        position == IF explicit THEN nodeData.position ELSE ArrayPosition(np.x, np.y)
        node == [id |-> IF FalsyStr(nodeData.id) THEN uuidv4(ns) ELSE nodeData.id,
                 type |-> nodeData.type,
                 name |-> nodeData.name,
                 position |-> position,
                 typeVersion |-> OrOne(nodeData.typeVersion)]
    IN  [nodes |-> Append(ns, node),
         nextPosition |-> calculateNextPosition(np),
         node |-> node]

\* addNode(nodeData): the node list, the cursor and the created node
BuilderAddNode(ns, np, nodeData) ==
    LET explicit == nodeData.position.form # "none"
        position == IF explicit THEN nodeData.position ELSE ArrayPosition(np.x, np.y)
        node == [id |-> IF FalsyStr(nodeData.id) THEN uuidv4(ns) ELSE nodeData.id,
                 type |-> nodeData.type,
                 name |-> nodeData.name,
                 position |-> position,
                 typeVersion |-> OrOne(nodeData.typeVersion)]
    IN  [nodes |-> Append(ns, node),
         nextPosition |-> IF explicit THEN np ELSE calculateNextPosition(np),
         node |-> node]

\* mutant of PadMain: only the requested port gets an array, main[outputIndex] = []
PadMainSparse(main, outputIndex) ==
    IF main.length <= outputIndex
    THEN [length |-> outputIndex + 1,
          at |-> [i \in (DOMAIN main.at) \cup {outputIndex} |->
                     IF i = outputIndex THEN <<>> ELSE main.at[i]]]
    ELSE main

\* while (main.length <= outputIndex) main.push([])
RECURSIVE PadMain(_, _)
PadMain(main, outputIndex) ==
    IF main.length <= outputIndex
    THEN PadMain(ArrayPush(main, <<>>), outputIndex)
    ELSE main

\* if (!connections[name]) connections[name] = { main: [[]] }
EnsureEntry(conns, name) ==
    IF HasKey(conns, name) THEN conns ELSE SetKey(conns, name, [main |-> ArrayOf(<<>>)])

\* connections[name].main[outputIndex].push(connection); pushing onto a slot
\* that holds no array is a TypeError and leaves the table as it was then
PushEdge(conns, name, outputIndex, connection) ==
    LET main == conns[name].main
    IN  IF outputIndex \in DOMAIN main.at
        THEN [status |-> "ok",
              connections |-> [conns EXCEPT ![name].main.at[outputIndex] = Append(@, connection)]]
        ELSE [status |-> "TypeError", connections |-> conns]

\* mutant of BuilderEdge: the edge names its target by id
BuilderEdgeById(targetNode, outputIndex) ==
    [node |-> targetNode.id, type |-> "main", index |-> outputIndex]

\* the edge connectNodes creates
BuilderEdge(targetNode, outputIndex) ==
    [node |-> targetNode.name, type |-> "main", index |-> outputIndex]

\* connectNodes(sourceNodeId, targetNodeId, outputIndex): outcome and table
BuilderConnect(ns, conns, sourceNodeId, targetNodeId, outputIndex) ==
    IF ~NodeExists(ns, sourceNodeId) \/ ~NodeExists(ns, targetNodeId)
    THEN [status |-> "Error", connections |-> conns]
    ELSE LET sourceNode == FindNode(ns, sourceNodeId)
             targetNode == FindNode(ns, targetNodeId)
             connection == BuilderEdge(targetNode, outputIndex)
             entered == EnsureEntry(conns, sourceNode.name)
             padded == [entered EXCEPT ![sourceNode.name].main = PadMain(@, outputIndex)]
         IN  PushEdge(padded, sourceNode.name, outputIndex, connection)

\* the position addBranches reads off the source node
SourcePos(sourceNode) == [x |-> sourceNode.position.x, y |-> sourceNode.position.y]

\* mutant of BranchLoop: branch i is connected at output port i of the source
RECURSIVE BranchLoopPortPerBranch(_, _, _, _, _, _, _)
BranchLoopPortPerBranch(ns, conns, np, sourceNode, branchTypes, index, branchNodes) ==
    IF index >= Len(branchTypes)
    THEN [status |-> "ok", nodes |-> ns, connections |-> conns, nextPosition |-> np,
          branchNodes |-> branchNodes]
    ELSE LET branchConfig == branchTypes[index + 1]
             posObj == calculateBranchPosition(SourcePos(sourceNode), index, Len(branchTypes))
             added == BuilderAddNode(ns, np,
                          [id |-> Undefined, type |-> branchConfig.type, name |-> branchConfig.name,
                           position |-> ArrayPosition(posObj.x, posObj.y), typeVersion |-> None])
             linked == BuilderConnect(added.nodes, conns, sourceNode.id, added.node.id, index)
         IN  BranchLoopPortPerBranch(added.nodes, linked.connections, added.nextPosition,
                                     sourceNode, branchTypes, index + 1,
                                     Append(branchNodes, added.node))

\* branchTypes.forEach((branchConfig, index) => ...), from the 0-based index on,
\* with the branchNodes collected so far; a throw leaves what was done before it
RECURSIVE BranchLoop(_, _, _, _, _, _, _)
BranchLoop(ns, conns, np, sourceNode, branchTypes, index, branchNodes) ==
    IF index >= Len(branchTypes)
    THEN [status |-> "ok", nodes |-> ns, connections |-> conns, nextPosition |-> np,
          branchNodes |-> branchNodes]
    ELSE LET branchConfig == branchTypes[index + 1]
             posObj == calculateBranchPosition(SourcePos(sourceNode), index, Len(branchTypes))
             added == BuilderAddNode(ns, np,
                          [id |-> Undefined, type |-> branchConfig.type, name |-> branchConfig.name,
                           position |-> ArrayPosition(posObj.x, posObj.y), typeVersion |-> None])
             linked == BuilderConnect(added.nodes, conns, sourceNode.id, added.node.id, 0)
         IN  IF linked.status # "ok"
             THEN [status |-> linked.status, nodes |-> added.nodes,
                   connections |-> linked.connections, nextPosition |-> added.nextPosition,
                   branchNodes |-> <<>>]
             ELSE BranchLoop(added.nodes, linked.connections, added.nextPosition,
                             sourceNode, branchTypes, index + 1,
                             Append(branchNodes, added.node))

\* mutant of BuilderAddBranches: the source is looked up after the first branch
\* node was created
BuilderAddBranchesLateCheck(ns, conns, np, sourceNodeId, branchTypes) ==
    IF ~NodeExists(ns, sourceNodeId)
    THEN [status |-> "Error",
          nodes |-> IF Len(branchTypes) = 0 THEN ns
                    ELSE BuilderAddNode(ns, np,
                             [id |-> Undefined, type |-> branchTypes[1].type,
                              name |-> branchTypes[1].name, position |-> ArrayPosition(0, 0),
                              typeVersion |-> None]).nodes,
          connections |-> conns, nextPosition |-> np, branchNodes |-> <<>>]
    ELSE BranchLoop(ns, conns, np, FindNode(ns, sourceNodeId), branchTypes, 0, <<>>)

\* addBranches(sourceNodeId, branchTypes)
BuilderAddBranches(ns, conns, np, sourceNodeId, branchTypes) ==
    IF ~NodeExists(ns, sourceNodeId)
    THEN [status |-> "Error", nodes |-> ns, connections |-> conns, nextPosition |-> np,
          branchNodes |-> <<>>]
    ELSE BranchLoop(ns, conns, np, FindNode(ns, sourceNodeId), branchTypes, 0, <<>>)

\* the number of edges in a table
RECURSIVE SumLens(_, _)
SumLens(main, ports) ==
    IF ports = {} THEN 0
    ELSE LET p == CHOOSE q \in ports : TRUE
         IN  Len(main.at[p]) + SumLens(main, ports \ {p})

RECURSIVE CountEdges(_, _)
CountEdges(conns, keys) ==
    IF keys = {} THEN 0
    ELSE LET k == CHOOSE q \in keys : TRUE
         IN  SumLens(conns[k].main, DOMAIN conns[k].main.at) + CountEdges(conns, keys \ {k})

EdgeCount(conns) == CountEdges(conns, DOMAIN conns)

-----------------------------------------------------------------------------
(* utils/validation: validateWorkflowSpec *)

NoSpec == [name |-> Undefined, nodes |-> <<>>, connections |-> EmptyObject, settings |-> EmptyObject]

Thrown(error) == [status |-> error, spec |-> NoSpec]

\* the first error the checks of one element of input.nodes raise, "ok" if none:
\* typeof null is "object", so a null element passes the first check and
\* reading node.type of it is a TypeError
NodeCheck(node) ==
    IF node.kind = "primitive" THEN "InvalidParams"
    ELSE IF node.kind = "null" THEN "TypeError"
    ELSE IF node.type \in {Undefined, NotAString} THEN "InvalidParams"
    ELSE IF node.name \in {Undefined, NotAString} THEN "InvalidParams"
    ELSE "ok"

\* the optional fields the map callback reads from the element, besides
\* parameters and disabled, which it defaults
CopiedFields ==
    {"credentials", "webhookId", "continueOnFail", "alwaysOutputData", "retryOnFail"}

\* the node the map callback returns for the element at 1-based place i; a
\* field it sets to undefined is a field the result lacks
NormalizeNode(node, i) ==
    [id |-> IF FalsyStr(node.id) THEN UuidPool[i] ELSE node.id,
     type |-> node.type,
     name |-> node.name,
     position |-> IF node.position.form # "none"
                  THEN node.position
                  ELSE ArrayPosition(DEFAULT_POSITION.x, DEFAULT_POSITION.y),
     typeVersion |-> OrOne(node.typeVersion),
     disabled |-> IF HasKey(node.fields, "disabled") THEN node.fields["disabled"] ELSE FALSE,
     parameters |-> IF HasKey(node.fields, "parameters")
                    THEN node.fields["parameters"]
                    ELSE EmptyObject,
     fields |-> [k \in DOMAIN node.fields \cap CopiedFields |-> node.fields[k]]]

\* input.nodes.map(...): the error of the first element that raises one, else the nodes
NormalizeNodes(rawNodes) ==
    LET bad == {i \in 1 .. Len(rawNodes) : NodeCheck(rawNodes[i]) # "ok"}
    IN  IF bad # {}
        THEN [status |-> NodeCheck(rawNodes[CHOOSE i \in bad : \A j \in bad : i <= j]),
              nodes |-> <<>>]
        ELSE [status |-> "ok",
              nodes |-> [i \in 1 .. Len(rawNodes) |-> NormalizeNode(rawNodes[i], i)]]

\* normalizedNodes.find(n => n.id === ref || n.name === ref) finds a node
Resolves(ns, ref) == \E i \in 1 .. Len(ns) : ns[i].id = ref \/ ns[i].name = ref

\* normalizedNodes.find(n => n.id === ref || n.name === ref), when it finds one
FindByIdOrName(ns, ref) ==
    ns[CHOOSE i \in 1 .. Len(ns) :
          /\ ns[i].id = ref \/ ns[i].name = ref
          /\ \A j \in 1 .. (i - 1) : ns[j].id # ref /\ ns[j].name # ref]

\* mutant of ValidatorEdge: the edge's index is the source's output port
ValidatorEdgeSourceOutput(targetNode, conn) ==
    [node |-> targetNode.name, type |-> "main", index |-> OrZero(conn.sourceOutput)]

\* the edge the array conversion creates
ValidatorEdge(targetNode, conn) ==
    [node |-> targetNode.name, type |-> "main", index |-> OrZero(conn.targetInput)]

\* mutant of ConvertEntry: the source's entry and ports are set up before the
\* target is looked up
ConvertEntryEagerEntry(ns, table, conn) ==
    IF ~Resolves(ns, conn.source)
    THEN table
    ELSE LET sourceNode == FindByIdOrName(ns, conn.source)
             outputIndex == OrZero(conn.sourceOutput)
             entered == EnsureEntry(table, sourceNode.name)
             padded == [entered EXCEPT ![sourceNode.name].main = PadMain(@, outputIndex)]
         IN  IF ~Resolves(ns, conn.target)
             THEN padded
             ELSE PushEdge(padded, sourceNode.name, outputIndex,
                           ValidatorEdge(FindByIdOrName(ns, conn.target), conn)).connections

\* the body of input.connections.forEach for one entry whose endpoints are given
ConvertEntry(ns, table, conn) ==
    IF ~Resolves(ns, conn.source) \/ ~Resolves(ns, conn.target)
    THEN table
    ELSE LET sourceNode == FindByIdOrName(ns, conn.source)
             targetNode == FindByIdOrName(ns, conn.target)
             outputIndex == OrZero(conn.sourceOutput)
             entered == EnsureEntry(table, sourceNode.name)
             padded == [entered EXCEPT ![sourceNode.name].main = PadMain(@, outputIndex)]
         IN  PushEdge(padded, sourceNode.name, outputIndex,
                      ValidatorEdge(targetNode, conn)).connections

\* input.connections.forEach(...), from the 1-based place i on
RECURSIVE ConvertArray(_, _, _, _)
ConvertArray(ns, table, items, i) ==
    IF i > Len(items) THEN [status |-> "ok", connections |-> table]
    ELSE IF FalsyStr(items[i].source) \/ FalsyStr(items[i].target)
    THEN [status |-> "InvalidParams", connections |-> table]
    ELSE ConvertArray(ns, ConvertEntry(ns, table, items[i]), items, i + 1)

\* mutant of NormalizeConnections: a table given in object form is rebuilt
\* without the edges whose target is the name of no node
NormalizeConnectionsDropDangling(ns, rawConnections) ==
    IF rawConnections.kind = "absent" THEN [status |-> "ok", connections |-> EmptyObject]
    ELSE IF rawConnections.kind = "object"
    THEN [status |-> "ok",
          connections |->
              [name \in DOMAIN rawConnections.table |->
                  IF ~HasKey(rawConnections.table[name], "main")
                  THEN rawConnections.table[name]
                  ELSE [main |->
                           [length |-> rawConnections.table[name].main.length,
                            at |-> [port \in DOMAIN rawConnections.table[name].main.at |->
                                       SelectSeq(rawConnections.table[name].main.at[port],
                                                 LAMBDA edge : \E i \in 1 .. Len(ns) :
                                                                  ns[i].name = edge.node)]]]]]
    ELSE IF rawConnections.kind = "array"
    THEN ConvertArray(ns, EmptyObject, rawConnections.items, 1)
    ELSE [status |-> "InvalidParams", connections |-> EmptyObject]

\* the connections of the result, by the shape of input.connections
NormalizeConnections(ns, rawConnections) ==
    IF rawConnections.kind = "absent" THEN [status |-> "ok", connections |-> EmptyObject]
    ELSE IF rawConnections.kind = "object"
    THEN [status |-> "ok", connections |-> rawConnections.table]
    ELSE IF rawConnections.kind = "array"
    THEN ConvertArray(ns, EmptyObject, rawConnections.items, 1)
    ELSE [status |-> "InvalidParams", connections |-> EmptyObject]

\* mutant of NormalizeSettings: the tag is a default the caller's settings override
NormalizeSettingsCallerWins(rawSettings) ==
    Spread(SetKey(DefaultSettings, "executionOrder", "v1"),
           IF rawSettings.kind = "absent" THEN EmptyObject ELSE rawSettings.fields)

\* const settings = input.settings || {...defaults}; settings.executionOrder = 'v1'
NormalizeSettings(rawSettings) ==
    SetKey(IF rawSettings.kind = "absent" THEN DefaultSettings ELSE rawSettings.fields,
           "executionOrder", "v1")

\* what the call leaves in the object it was given: settings aliases
\* input.settings, so the assignment to executionOrder lands in the input
InputAfter(in) ==
    IF in.settings.kind = "absent"
    THEN in
    ELSE [in EXCEPT !.settings.fields = SetKey(@, "executionOrder", "v1")]

\* validateWorkflowSpec(input): what it returns or throws
validateWorkflowSpec(in) ==
    IF in.kind # "object" THEN Thrown("InvalidParams")
    ELSE IF in.nodesKind # "array" THEN Thrown("InvalidParams")
    ELSE LET mapped == NormalizeNodes(in.nodes)
         IN  IF mapped.status # "ok" THEN Thrown(mapped.status)
             ELSE LET converted == NormalizeConnections(mapped.nodes, in.connections)
                  IN  IF converted.status # "ok" THEN Thrown(converted.status)
                      ELSE [status |-> "ok",
                            spec |-> [name |-> IF FalsyStr(in.name) THEN "New Workflow" ELSE in.name,
                                      nodes |-> mapped.nodes,
                                      connections |-> converted.connections,
                                      settings |-> NormalizeSettings(in.settings)]]

\* whether the call reaches the assignment to settings.executionOrder
ReachesSettings(in) == validateWorkflowSpec(in).status = "ok"

-----------------------------------------------------------------------------
(* The arguments the builder's callers pass *)

Names == {"Start", "Log"}

ExplicitPositions == {ObjectPosition(300, 100)}

NodeDataInputs ==
    [id : {Undefined},
     type : {"action.log"},
     name : Names,
     position : {NoPosition} \cup ExplicitPositions,
     typeVersion : {None}]

BranchConfigs == [type : {"action.log"}, name : Names]

BranchInputs ==
    UNION {[1 .. n -> BranchConfigs] : n \in 0 .. MaxBranches}

\* ids a caller can name: those of the nodes, and one no node carries
IdInputs == {nodes[i].id : i \in 1 .. Len(nodes)} \cup {"missing"}

SettingsInputs == {[executionOrder |-> "legacy", saveDataErrorExecution |-> "none"]}

NameInputs == {"My Workflow"}

TagsInputs == {<<>>, <<"tag-1">>, <<"tag-1", "tag-2">>}

\* the nodes of a layout session: one name, with and without a position
LayoutNodeDataInputs ==
    [id : {Undefined},
     type : {"action.log"},
     name : {"Log"},
     position : {NoPosition} \cup ExplicitPositions,
     typeVersion : {None}]

BranchNames == <<"B1", "B2", "B3", "B4", "B5">>

\* the branchTypes of a layout session: n branches, each with its own name
FanInputs ==
    {[i \in 1 .. n |-> [type |-> "action.log", name |-> BranchNames[i]]] : n \in 0 .. MaxFan}

\* the links of a chain: each node to the node added right after it
ChainLinks == {<<nodes[i].id, nodes[i + 1].id>> : i \in 1 .. (Len(nodes) - 1)}

-----------------------------------------------------------------------------
(* services/workflowBuilder: the objects a caller holds *)

\* mutant of ExportedSpec: the spec carries the builder's active and tags fields
ExportedSpecWithFlags ==
    [name |-> workflowName,
     nodes |-> nodes,
     connections |-> connections,
     settings |-> workflowSettings,
     staticData |-> [lastId |-> 1],
     active |-> workflowActive,
     tags |-> workflowTags]

\* the object exportWorkflow() returns
ExportedSpec ==
    [name |-> workflowName,
     nodes |-> nodes,
     connections |-> connections,
     settings |-> workflowSettings,
     staticData |-> [lastId |-> 1]]

EmptySpec ==
    [name |-> Undefined, nodes |-> <<>>, connections |-> EmptyObject,
     settings |-> EmptyObject, staticData |-> [lastId |-> 1]]

\* no caller holds an exported spec
NoExport ==
    [held |-> FALSE, later |-> 0, nodesShared |-> FALSE, connectionsShared |-> FALSE,
     snapshot |-> EmptySpec, spec |-> EmptySpec]

\* the held reference right after exportWorkflow(): the spec's nodes and
\* connections are the builder's own array and table, not copies; snapshot is
\* the value the spec had when it was returned
Held(spec) ==
    [held |-> TRUE, later |-> 0, nodesShared |-> TRUE, connectionsShared |-> TRUE,
     snapshot |-> spec, spec |-> spec]

\* the held spec after a builder call that leaves the builder with the node
\* list ns and the table conns: a call that pushes onto the shared array or
\* writes into the shared table shows in the held spec, a call that assigns a
\* new array or a new table to the builder's field ends the sharing
HeldAfter(exp, ns, conns, newNodesArray, newTable) ==
    IF ~exp.held THEN exp
    ELSE LET nodesShared == exp.nodesShared /\ ~newNodesArray
             connectionsShared == exp.connectionsShared /\ ~newTable
         IN  [held |-> TRUE,
              later |-> exp.later + 1,
              nodesShared |-> nodesShared,
              connectionsShared |-> connectionsShared,
              snapshot |-> exp.snapshot,
              spec |-> [exp.spec EXCEPT
                           !.nodes = IF nodesShared THEN ns ELSE @,
                           !.connections = IF connectionsShared THEN conns ELSE @]]

\* the calls modelled while a spec is held are capped
WithinBudget == ~exported.held \/ exported.later < MaxLater

\* the caps of the session on nodes and edges
NodeCap == IF phase = "layout" THEN MaxLayoutNodes ELSE MaxNodes

EdgeCap == IF phase = "layout" THEN MaxLayoutEdges ELSE MaxEdges

-----------------------------------------------------------------------------
(* services/workflowBuilder: the state machine of one builder instance *)

BuilderInit ==
    /\ nodes = <<>>
    /\ connections = EmptyObject
    /\ nextPosition = DEFAULT_POSITION
    /\ workflowName = "New Workflow"
    /\ workflowSettings = InitialBuilderSettings
    /\ workflowActive = FALSE
    /\ workflowTags = <<>>
    /\ lastCall = NoCall
    /\ exported = NoExport
    /\ placed = <<>>

setName(name) ==
    /\ WithinBudget
    /\ workflowName' = name
    /\ lastCall' = Call("setName", "ok")
    /\ exported' = HeldAfter(exported, nodes, connections, FALSE, FALSE)
    /\ UNCHANGED <<nodes, connections, nextPosition, workflowSettings, workflowActive,
                   workflowTags, placed, input, original, output, phase, server>>

setSettings(settings) ==
    /\ WithinBudget
    /\ workflowSettings' = Spread(workflowSettings, settings)
    /\ lastCall' = Call("setSettings", "ok")
    /\ exported' = HeldAfter(exported, nodes, connections, FALSE, FALSE)
    /\ UNCHANGED <<nodes, connections, nextPosition, workflowName, workflowActive,
                   workflowTags, placed, input, original, output, phase, server>>

setActive(active) ==
    /\ WithinBudget
    /\ workflowActive' = active
    /\ lastCall' = Call("setActive", "ok")
    /\ exported' = HeldAfter(exported, nodes, connections, FALSE, FALSE)
    /\ UNCHANGED <<nodes, connections, nextPosition, workflowName, workflowSettings,
                   workflowTags, placed, input, original, output, phase, server>>

setTags(tags) ==
    /\ WithinBudget
    /\ workflowTags' = tags
    /\ lastCall' = Call("setTags", "ok")
    /\ exported' = HeldAfter(exported, nodes, connections, FALSE, FALSE)
    /\ UNCHANGED <<nodes, connections, nextPosition, workflowName, workflowSettings,
                   workflowActive, placed, input, original, output, phase, server>>

setConnectionFormat(useDirectArray) ==
    /\ WithinBudget
    /\ connections' = EmptyObject
    /\ lastCall' = Call("setConnectionFormat", "ok")
    /\ exported' = HeldAfter(exported, nodes, connections', FALSE, TRUE)
    /\ UNCHANGED <<nodes, nextPosition, workflowName, workflowSettings, workflowActive,
                   workflowTags, placed, input, original, output, phase, server>>

resetPosition ==
    /\ WithinBudget
    /\ nextPosition' = DEFAULT_POSITION
    /\ lastCall' = Call("resetPosition", "ok")
    /\ exported' = HeldAfter(exported, nodes, connections, FALSE, FALSE)
    /\ placed' = <<>>
    /\ UNCHANGED <<nodes, connections, workflowName, workflowSettings, workflowActive,
                   workflowTags, input, original, output, phase, server>>

addTrigger(type, name) ==
    /\ WithinBudget
    /\ Len(nodes) < NodeCap
    /\ LET added == BuilderAddNode(nodes, calculateNextPosition(DEFAULT_POSITION),
                        [id |-> uuidv4(nodes), type |-> type, name |-> name,
                         position |-> ArrayPosition(DEFAULT_POSITION.x, DEFAULT_POSITION.y),
                         typeVersion |-> 1])
       IN  /\ nodes' = added.nodes
           /\ nextPosition' = added.nextPosition
           /\ lastCall' = [Call("addTrigger", "ok") EXCEPT
                              !.target = added.node.id, !.returned = <<added.node>>]
    /\ exported' = HeldAfter(exported, nodes', connections, FALSE, FALSE)
    /\ placed' = <<>>
    /\ UNCHANGED <<connections, workflowName, workflowSettings, workflowActive,
                   workflowTags, input, original, output, phase, server>>

addNode(nodeData) ==
    /\ WithinBudget
    /\ Len(nodes) < NodeCap
    /\ LET added == BuilderAddNode(nodes, nextPosition, nodeData)
           auto == nodeData.position.form = "none"
       IN  /\ nodes' = added.nodes
           /\ nextPosition' = added.nextPosition
           /\ lastCall' = [Call("addNode", "ok") EXCEPT
                              !.target = added.node.id, !.auto = auto,
                              !.returned = <<added.node>>]
           /\ placed' = IF auto THEN Append(placed, added.node.position) ELSE placed
    /\ exported' = HeldAfter(exported, nodes', connections, FALSE, FALSE)
    /\ UNCHANGED <<connections, workflowName, workflowSettings, workflowActive,
                   workflowTags, input, original, output, phase, server>>

addBranches(sourceNodeId, branchTypes) ==
    /\ WithinBudget
    /\ Len(nodes) + Len(branchTypes) <= NodeCap
    /\ EdgeCount(connections) + Len(branchTypes) <= EdgeCap
    /\ LET done == BuilderAddBranches(nodes, connections, nextPosition, sourceNodeId, branchTypes)
       IN  /\ nodes' = done.nodes
           /\ connections' = done.connections
           /\ nextPosition' = done.nextPosition
           /\ lastCall' = [Call("addBranches", done.status) EXCEPT
                              !.source = sourceNodeId, !.index = Len(branchTypes),
                              !.branchTypes = branchTypes, !.returned = done.branchNodes]
    /\ exported' = HeldAfter(exported, nodes', connections', FALSE, FALSE)
    /\ UNCHANGED <<workflowName, workflowSettings, workflowActive, workflowTags, placed,
                   input, original, output, phase, server>>

connectNodes(sourceNodeId, targetNodeId, outputIndex) ==
    /\ WithinBudget
    /\ EdgeCount(connections) < EdgeCap
    /\ LET done == BuilderConnect(nodes, connections, sourceNodeId, targetNodeId, outputIndex)
       IN  /\ connections' = done.connections
           /\ lastCall' = [Call("connectNodes", done.status) EXCEPT
                              !.source = sourceNodeId, !.target = targetNodeId,
                              !.index = outputIndex]
    /\ exported' = HeldAfter(exported, nodes, connections', FALSE, FALSE)
    /\ UNCHANGED <<nodes, nextPosition, workflowName, workflowSettings, workflowActive,
                   workflowTags, placed, input, original, output, phase, server>>

\* mutant of clear: the connection table is kept
clearKeepsConnections ==
    /\ WithinBudget
    /\ nodes' = <<>>
    /\ nextPosition' = DEFAULT_POSITION
    /\ lastCall' = Call("clear", "ok")
    /\ exported' = HeldAfter(exported, nodes', connections, TRUE, FALSE)
    /\ placed' = <<>>
    /\ UNCHANGED <<connections, workflowName, workflowSettings, workflowActive,
                   workflowTags, input, original, output, phase, server>>

\* mutant of clear: the layout cursor is kept
clearKeepsCursor ==
    /\ WithinBudget
    /\ nodes' = <<>>
    /\ connections' = EmptyObject
    /\ lastCall' = Call("clear", "ok")
    /\ exported' = HeldAfter(exported, nodes', connections', TRUE, TRUE)
    /\ UNCHANGED <<nextPosition, placed, workflowName, workflowSettings, workflowActive,
                   workflowTags, input, original, output, phase, server>>

clear ==
    /\ WithinBudget
    /\ nodes' = <<>>
    /\ connections' = EmptyObject
    /\ nextPosition' = DEFAULT_POSITION
    /\ lastCall' = Call("clear", "ok")
    /\ exported' = HeldAfter(exported, nodes', connections', TRUE, TRUE)
    /\ placed' = <<>>
    /\ UNCHANGED <<workflowName, workflowSettings, workflowActive, workflowTags,
                   input, original, output, phase, server>>

\* mutant of exportWorkflow: exporting starts the next layout from the default
exportWorkflowResetsCursor(keep) ==
    /\ keep => ~exported.held
    /\ lastCall' = Call("exportWorkflow", "ok")
    /\ exported' = IF keep THEN Held(ExportedSpec) ELSE exported
    /\ nextPosition' = DEFAULT_POSITION
    /\ UNCHANGED <<nodes, connections, workflowName, workflowSettings,
                   workflowActive, workflowTags, placed, input, original, output, phase, server>>

\* exportWorkflow(); keep: the caller holds on to the spec it returns
exportWorkflow(keep) ==
    /\ keep => ~exported.held
    /\ lastCall' = Call("exportWorkflow", "ok")
    /\ exported' = IF keep THEN Held(ExportedSpec) ELSE exported
    /\ UNCHANGED <<nodes, connections, nextPosition, workflowName, workflowSettings,
                   workflowActive, workflowTags, placed, input, original, output, phase, server>>

\* the calls of a session that builds a graph, names it, sets its settings and
\* exports it
Next ==
    \/ \E name \in NameInputs : setName(name)
    \/ \E settings \in SettingsInputs : setSettings(settings)
    \/ \E useDirectArray \in BOOLEAN : setConnectionFormat(useDirectArray)
    \/ resetPosition
    \/ \E name \in Names : addTrigger("trigger.manual", name)
    \/ \E nodeData \in NodeDataInputs : addNode(nodeData)
    \/ \E sourceNodeId \in IdInputs, branchTypes \in BranchInputs :
           addBranches(sourceNodeId, branchTypes)
    \/ \E sourceNodeId \in IdInputs, targetNodeId \in IdInputs, outputIndex \in 0 .. MaxPort :
           connectNodes(sourceNodeId, targetNodeId, outputIndex)
    \/ exportWorkflow(FALSE)
    \/ clear

\* no validateWorkflowSpec call is in sight
\* the dispatcher is handling no call
NoServer == [calls |-> <<>>, builders |-> <<>>, defaultPosition |-> DEFAULT_POSITION]

NoInput == [kind |-> "none"]

NoOutput == [status |-> "none", spec |-> NoSpec]

Init ==
    /\ BuilderInit
    /\ phase = "builder"
    /\ input = NoInput
    /\ original = NoInput
    /\ output = NoOutput
    /\ server = NoServer

Spec == Init /\ [][Next]_vars

-----------------------------------------------------------------------------
(* A session that also uses the deprecated setters setActive and setTags; the *)
(* two fields they write are read by no method                                *)

NextFlags ==
    \/ \E active \in BOOLEAN : setActive(active)
    \/ \E tags \in TagsInputs : setTags(tags)
    \/ \E name \in NameInputs : setName(name)
    \/ \E settings \in SettingsInputs : setSettings(settings)
    \/ addTrigger("trigger.manual", "Start")
    \/ \E nodeData \in LayoutNodeDataInputs : addNode(nodeData)
    \/ \E link \in ChainLinks : connectNodes(link[1], link[2], 0)
    \/ exportWorkflow(FALSE)
    \/ clear

SpecFlags == Init /\ [][NextFlags]_vars

-----------------------------------------------------------------------------
(* A session whose caller keeps one exported spec and goes on building *)

NextExport ==
    \/ Next
    \/ exportWorkflow(TRUE)

SpecExport == Init /\ [][NextExport]_vars

-----------------------------------------------------------------------------
(* A layout session: a trigger, nodes with and without positions, fans of up *)
(* to MaxFan branches                                                        *)

LayoutInit ==
    /\ BuilderInit
    /\ phase = "layout"
    /\ input = NoInput
    /\ original = NoInput
    /\ output = NoOutput
    /\ server = NoServer

NextLayout ==
    \/ addTrigger("trigger.manual", "Start")
    \/ \E nodeData \in LayoutNodeDataInputs : addNode(nodeData)
    \/ \E sourceNodeId \in IdInputs, branchTypes \in FanInputs :
           addBranches(sourceNodeId, branchTypes)
    \/ \E link \in ChainLinks : connectNodes(link[1], link[2], 0)
    \/ resetPosition
    \/ clear

SpecLayout == LayoutInit /\ [][NextLayout]_vars

-----------------------------------------------------------------------------
(* One call of calculateBranchPosition *)

BasePositions == {[x |-> x, y |-> y] : x \in {100, 300}, y \in {240, 100, 0}}

PositionInit ==
    /\ BuilderInit
    /\ phase = "asked"
    /\ \E basePosition \in BasePositions, totalBranches \in 1 .. MaxTotalBranches :
          \E branchIndex \in 0 .. (totalBranches - 1) :
              input = [kind |-> "position", basePosition |-> basePosition,
                       branchIndex |-> branchIndex, totalBranches |-> totalBranches]
    /\ original = input
    /\ output = NoOutput
    /\ server = NoServer

BranchPosition ==
    /\ phase = "asked"
    /\ output' = [status |-> "ok",
                  position |-> calculateBranchPosition(input.basePosition, input.branchIndex,
                                                       input.totalBranches)]
    /\ phase' = "placed"
    /\ UNCHANGED <<builderVars, input, original, server>>

SpecPosition == PositionInit /\ [][BranchPosition]_vars

-----------------------------------------------------------------------------
(* The objects validateWorkflowSpec's callers pass *)

MaxInNodes == 3
MaxInConns == 2
MaxInFieldNodes == 2

RawNode(kind, id, type, name) ==
    [kind |-> kind, id |-> id, type |-> type, name |-> name,
     position |-> NoPosition, typeVersion |-> None, fields |-> EmptyObject]

\* nodes that pass the checks: A and C carry an id, B gets a generated one
GoodNodes ==
    {RawNode("object", "idA", "action.log", "A"),
     RawNode("object", Undefined, "action.log", "B"),
     RawNode("object", "idC", "action.log", "C")}

\* null, a number, a node without a type, a node whose name is a number
BadNodes ==
    {RawNode("null", Undefined, Undefined, Undefined),
     RawNode("primitive", Undefined, Undefined, Undefined),
     RawNode("object", "idA", Undefined, "A"),
     RawNode("object", Undefined, "action.log", NotAString)}

SeqsUpTo(S, n) == UNION {[1 .. k -> S] : k \in 0 .. n}

\* the optional fields of a node of the input, those present: none, disabled
\* alone, the ones the WorkflowNode interface lists first, the ones it lists
\* last, and explicit falsy ones
FieldInputs ==
    {EmptyObject,
     [disabled |-> TRUE],
     [parameters |-> [url |-> "https://example.test"], credentials |-> [api |-> "key-1"],
      webhookId |-> "hook-1", continueOnFail |-> TRUE, alwaysOutputData |-> TRUE,
      retryOnFail |-> TRUE],
     [onError |-> "continueRegularOutput", maxTries |-> 3, waitBetweenTries |-> 1000,
      executeOnce |-> TRUE, notesInFlow |-> TRUE, notes |-> "checked"],
     [disabled |-> FALSE, parameters |-> EmptyObject, continueOnFail |-> FALSE]}

\* well-formed nodes D and E that vary the id, the form of the position, the
\* typeVersion and the optional fields
FieldNodes ==
    {[RawNode("object", id, "action.log", name)
         EXCEPT !.position = position, !.typeVersion = typeVersion, !.fields = fields] :
        id \in {Undefined, "idD"}, name \in {"D"},
        position \in {NoPosition, ArrayPosition(10, 20), ObjectPosition(10, 20)},
        typeVersion \in {None, 2}, fields \in FieldInputs}

Conn(source, target, sourceOutput, targetInput) ==
    [source |-> source, target |-> target,
     sourceOutput |-> sourceOutput, targetInput |-> targetInput]

\* entries whose endpoints name nodes by name or by id, with and without ports
ResolvingEntries ==
    {Conn(e[1], e[2], p[1], p[2]) :
        e \in {<<"A", "B">>, <<"A", "C">>, <<"idC", "idA">>},
        p \in {<<None, None>>, <<1, None>>, <<2, None>>, <<None, 2>>}}

\* entries that name a node the list may lack, or leave source or target out
OtherEntries ==
    {Conn("A", "Z", None, None), Conn("A", "Z", 2, None), Conn("Z", "B", None, None),
     Conn(Undefined, "B", None, None), Conn("A", Undefined, None, None)}

ConnEntries == ResolvingEntries \cup OtherEntries

AbsentConnections == [kind |-> "absent", items |-> <<>>, table |-> EmptyObject]

ArrayConnections(items) == [kind |-> "array", items |-> items, table |-> EmptyObject]

ObjectConnections(table) == [kind |-> "object", items |-> <<>>, table |-> table]

OtherConnections == [kind |-> "other", items |-> <<>>, table |-> EmptyObject]

EdgeTo(node, index) == [node |-> node, type |-> "main", index |-> index]

\* the array [ports[1], ports[2], ...]
MainOf(ports) == [length |-> Len(ports), at |-> [i \in 0 .. (Len(ports) - 1) |-> ports[i + 1]]]

\* tables in the canonical form: the empty one, one edge, an unused port 0
\* before a port with two edges, and two sources of which one points to "Z",
\* a name no node of the inputs carries
CanonicalTables ==
    {EmptyObject,
     [A |-> [main |-> MainOf(<< <<EdgeTo("B", 0)>> >>)]],
     [A |-> [main |-> MainOf(<< <<>>, <<EdgeTo("B", 1), EdgeTo("C", 0)>> >>)]],
     [A |-> [main |-> MainOf(<< <<EdgeTo("Z", 0)>> >>)],
      C |-> [main |-> MainOf(<< <<EdgeTo("A", 0)>> >>)]]}

\* tables whose entries are flat arrays of edges, with no main key
FlatTables ==
    {[A |-> MainOf(<<EdgeTo("B", 0), EdgeTo("C", 0)>>)],
     [A |-> MainOf(<<EdgeTo("B", 0)>>), C |-> MainOf(<<>>)]}

AbsentSettings == [kind |-> "absent", fields |-> EmptyObject]

ObjectSettings(fields) == [kind |-> "object", fields |-> fields]

RawSettingsInputs ==
    {AbsentSettings,
     ObjectSettings(EmptyObject),
     ObjectSettings([saveDataErrorExecution |-> "none"]),
     ObjectSettings([executionOrder |-> "legacy", timezone |-> "UTC"])}

\* the fields of the input that validateWorkflowSpec never reads: active and
\* tags, each present or not
Extras(hasActive, active, hasTags, tags) ==
    [hasActive |-> hasActive, active |-> active, hasTags |-> hasTags, tags |-> tags]

NoExtras == Extras(FALSE, FALSE, FALSE, <<>>)

ExtrasInputs ==
    {NoExtras, Extras(TRUE, TRUE, TRUE, <<"tag-1">>), Extras(TRUE, FALSE, TRUE, <<>>)}

RawInput(kind, nodesKind, rawNodes, rawConnections, name, rawSettings) ==
    [kind |-> kind, nodesKind |-> nodesKind, nodes |-> rawNodes,
     connections |-> rawConnections, name |-> name, settings |-> rawSettings,
     extras |-> NoExtras]

\* inputs that vary the top-level shape, the nodes and the settings
IsShapeInput(in) ==
    \/ \E rawNodes \in SeqsUpTo(GoodNodes \cup BadNodes, MaxInNodes),
          rawConnections \in {AbsentConnections, OtherConnections}
                               \cup {ObjectConnections(t) : t \in CanonicalTables},
          name \in {Undefined, "My Workflow"},
          rawSettings \in RawSettingsInputs :
          in = RawInput("object", "array", rawNodes, rawConnections, name, rawSettings)
    \/ \E kind \in {"object", "null", "primitive"}, nodesKind \in {"array", "absent", "other"},
          rawSettings \in RawSettingsInputs :
          in = RawInput(kind, nodesKind, <<>>, AbsentConnections, Undefined, rawSettings)
    \/ \E rawNodes \in SeqsUpTo(GoodNodes, 1), extras \in ExtrasInputs,
          rawSettings \in RawSettingsInputs :
          in = [RawInput("object", "array", rawNodes, AbsentConnections, "My Workflow",
                         rawSettings) EXCEPT !.extras = extras]

\* inputs whose connections map each source name to a flat array of edges
IsFlatInput(in) ==
    \E rawNodes \in SeqsUpTo(GoodNodes, MaxInNodes), table \in FlatTables :
        in = RawInput("object", "array", rawNodes, ObjectConnections(table), Undefined,
                      AbsentSettings)

\* inputs that vary the fields of the nodes
IsFieldInput(in) ==
    \E rawNodes \in SeqsUpTo(FieldNodes, MaxInFieldNodes) :
        in = RawInput("object", "array", rawNodes, AbsentConnections, "My Workflow",
                      AbsentSettings)

\* inputs that vary the flat connections array over well-formed nodes
IsArrayInput(in) ==
    \E rawNodes \in SeqsUpTo(GoodNodes, MaxInNodes), items \in SeqsUpTo(ConnEntries, MaxInConns) :
        in = RawInput("object", "array", rawNodes, ArrayConnections(items), Undefined,
                      AbsentSettings)

-----------------------------------------------------------------------------
(* One call of validateWorkflowSpec *)

ValidateInit ==
    /\ BuilderInit
    /\ phase = "ready"
    /\ \/ IsShapeInput(input)
       \/ IsArrayInput(input)
       \/ IsFieldInput(input)
       \/ IsFlatInput(input)
    /\ original = input
    /\ output = NoOutput
    /\ server = NoServer

Validate ==
    /\ phase = "ready"
    /\ output' = validateWorkflowSpec(input)
    /\ input' = IF ReachesSettings(input) THEN InputAfter(input) ELSE input
    /\ phase' = "done"
    /\ UNCHANGED <<builderVars, original, server>>

ValidateNext == Validate

SpecValidate == ValidateInit /\ [][ValidateNext]_vars

-----------------------------------------------------------------------------
(* Either a session that uses setActive and setTags, or one call of *)
(* validateWorkflowSpec                                              *)

InitFields == Init \/ ValidateInit

NextFields ==
    \/ phase = "builder" /\ NextFlags
    \/ Validate

SpecFields == InitFields /\ [][NextFields]_vars

-----------------------------------------------------------------------------
(* Either a builder session or one call of validateWorkflowSpec *)

InitAll == Init \/ ValidateInit

NextAll ==
    \/ phase = "builder" /\ Next
    \/ Validate

SpecAll == InitAll /\ [][NextAll]_vars

-----------------------------------------------------------------------------
(* Claims about the builder *)

\* the edge list at a port of a source name, empty when the table has none there
EdgesAt(conns, name, port) ==
    IF name \in DOMAIN conns /\ port \in DOMAIN conns[name].main.at
    THEN conns[name].main.at[port]
    ELSE <<>>

AllPorts == 0 .. (MaxPort + 1)

StartNode ==
    [id |-> "u1", type |-> "trigger.manual", name |-> "Start",
     position |-> ArrayPosition(100, 240), typeVersion |-> 1]

LogNode ==
    [id |-> "u2", type |-> "action.log", name |-> "Log",
     position |-> ArrayPosition(300, 240), typeVersion |-> 1]

\* { "Start": { main: [[{node:"Log", type:"main", index:0}]] } }
StartToLog ==
    [Start |-> [main |-> [length |-> 1,
                          at |-> [i \in {0} |-> <<[node |-> "Log", type |-> "main", index |-> 0]>>]]]]

\* C1: a connectNodes call whose two ids match nodes succeeds and appends exactly
\* one edge {node: target's name, type: "main", index: k} at the end of the list
\* at port k of the entry keyed by the source's name, creating the entry and
\* padding the ports below with empty lists, and changes no other list; after
\* addTrigger("trigger.manual","Start"), addNode({type:"action.log",name:"Log"}),
\* connectNodes(start.id, log.id) the exported connections are
\* { "Start": { main: [[{node:"Log", type:"main", index:0}]] } }.
C1_ConnectAppendsOneEdge ==
    [][(/\ lastCall'.op = "connectNodes"
        /\ NodeExists(nodes, lastCall'.source)
        /\ NodeExists(nodes, lastCall'.target))
       => LET source == FindNode(nodes, lastCall'.source).name
              target == FindNode(nodes, lastCall'.target).name
              k == lastCall'.index
          IN  /\ lastCall'.status = "ok"
              /\ nodes' = nodes
              /\ DOMAIN connections' = (DOMAIN connections) \cup {source}
              /\ \A name \in DOMAIN connections' : Dense(connections'[name].main)
              /\ connections'[source].main.length >= k + 1
              /\ connections'[source].main.at[k] =
                     Append(EdgesAt(connections, source, k),
                            [node |-> target, type |-> "main", index |-> k])
              /\ \A name \in DOMAIN connections', port \in AllPorts :
                     (name # source \/ port # k)
                         => EdgesAt(connections', name, port) = EdgesAt(connections, name, port)
              /\ (/\ nodes = <<StartNode, LogNode>>
                  /\ connections = EmptyObject
                  /\ lastCall'.source = "u1" /\ lastCall'.target = "u2" /\ k = 0)
                 => ExportedSpec'.connections = StartToLog
      ]_vars

\* C1 witness: the scenario's three calls have run, the last one being connectNodes
C1_Witness ==
    /\ lastCall.op = "connectNodes" /\ lastCall.status = "ok"
    /\ lastCall.source = "u1" /\ lastCall.target = "u2" /\ lastCall.index = 0
    /\ nodes = <<StartNode, LogNode>>
    /\ ExportedSpec.connections = StartToLog

\* C2: a connectNodes call naming an id no node carries, and an addBranches call
\* whose source id no node carries, fail with an error and leave the node list,
\* the connection table and the layout cursor as they were.
C2_StrictResolution ==
    [][(\/ /\ lastCall'.op = "connectNodes"
           /\ ~NodeExists(nodes, lastCall'.source) \/ ~NodeExists(nodes, lastCall'.target)
        \/ /\ lastCall'.op = "addBranches"
           /\ ~NodeExists(nodes, lastCall'.source))
       => /\ lastCall'.status = "Error"
          /\ UNCHANGED <<nodes, connections, nextPosition>>
      ]_vars

\* C2 witness: connectNodes has failed on a missing target in a builder that
\* holds nodes and edges
C2_Witness ==
    /\ lastCall.op = "connectNodes" /\ lastCall.status = "Error"
    /\ NodeExists(nodes, lastCall.source) /\ ~NodeExists(nodes, lastCall.target)
    /\ Len(nodes) = 2
    /\ EdgeCount(connections) = 1

\* C3 (the claim as stated): in every builder state the settings exportWorkflow()
\* returns have executionOrder "v1".
C3_ExportForcesExecutionOrder ==
    ExportedSpec.settings["executionOrder"] = "v1"

\* the names of the builder's nodes
NodeNames(ns) == {ns[i].name : i \in 1 .. Len(ns)}

\* the names the edges of a table point to
EdgeTargets(conns) ==
    {conns[name].main.at[port][i].node :
        <<name, port, i>> \in
            {<<n, q, j>> \in (DOMAIN conns) \X AllPorts \X (1 .. (MaxEdges + 1)) :
                q \in DOMAIN conns[n].main.at /\ j <= Len(conns[n].main.at[q])}}

\* C10: after any sequence of builder operations every key of the connection
\* table and every edge's node field is the name of a node of the node list.
C10_EdgesNameNodes ==
    /\ DOMAIN connections \subseteq NodeNames(nodes)
    /\ EdgeTargets(connections) \subseteq NodeNames(nodes)

\* C10 witness: addBranches has filled a table that an earlier call had emptied
C10_Witness ==
    /\ lastCall.op = "addBranches" /\ lastCall.status = "ok"
    /\ EdgeCount(connections) = 2
    /\ Cardinality(EdgeTargets(connections)) = 2

\* C13: an exportWorkflow() call leaves the name, the settings, the node list,
\* the connection table and the layout cursor as they were, and the spec a
\* second call right after it returns equals the spec the call returned.
C13_ExportLeavesBuilder ==
    [][lastCall'.op = "exportWorkflow"
       => /\ UNCHANGED <<workflowName, workflowSettings, nodes, connections, nextPosition>>
          /\ ExportedSpec' = ExportedSpec
      ]_vars

\* C13 witness: exportWorkflow() was called on a builder with two nodes, two
\* edges and a cursor that has moved
C13_Witness ==
    /\ lastCall.op = "exportWorkflow"
    /\ Len(nodes) = 2 /\ EdgeCount(connections) = 2
    /\ nextPosition # DEFAULT_POSITION

\* C14 (the claim as stated): the nodes, connections and settings of a spec
\* exportWorkflow() returned keep the values they had when it returned,
\* whatever is called on the builder afterwards.
C14_ExportIsSnapshot ==
    exported.held
        => /\ exported.spec.nodes = exported.snapshot.nodes
           /\ exported.spec.connections = exported.snapshot.connections
           /\ exported.spec.settings = exported.snapshot.settings

\* C15: clear() leaves the node list and the connection table empty and the
\* cursor at (100, 240), and the name and the settings as they were; an addNode
\* without a position right after it places its node at (100, 240).
C15_ClearResets ==
    [][/\ lastCall'.op = "clear"
          => /\ nodes' = <<>>
             /\ connections' = EmptyObject
             /\ nextPosition' = [x |-> 100, y |-> 240]
             /\ UNCHANGED <<workflowName, workflowSettings>>
       /\ (lastCall.op = "clear" /\ lastCall'.op = "addNode" /\ lastCall'.auto)
          => /\ Len(nodes') = 1
             /\ nodes'[1].position = ArrayPosition(100, 240)
      ]_vars

\* C15 witness: clear() was called on a builder whose name and settings had
\* been set
C15_Witness ==
    /\ lastCall.op = "clear"
    /\ workflowName = "My Workflow"
    /\ workflowSettings["executionOrder"] = "legacy"
    /\ nodes = <<>> /\ connections = EmptyObject

\* C17 (the claim as stated): addTrigger creates its node at (100, 240) and
\* leaves the cursor at the cursor before the call plus (200, 0).
C17_TriggerAdvancesCursor ==
    [][lastCall'.op = "addTrigger"
       => /\ lastCall'.returned[1].position = ArrayPosition(100, 240)
          /\ nextPosition' = [x |-> nextPosition.x + 200, y |-> nextPosition.y]
      ]_vars

-----------------------------------------------------------------------------
(* Claims about the layout *)

\* consecutive positions are 200 apart in x and level in y
EvenlySpaced(positions) ==
    \A k \in 1 .. (Len(positions) - 1) :
        /\ positions[k + 1].x = positions[k].x + 200
        /\ positions[k + 1].y = positions[k].y

\* C16: addNode without a position places its node at the cursor and moves the
\* cursor by (+200, 0); addNode with a position uses it and leaves the cursor;
\* addBranches and connectNodes leave the cursor; so the nodes placed from the
\* cursor since addTrigger, resetPosition or clear last set it are 200 apart in
\* x and level in y, whatever else was called in between.
C16_AutoPlacement ==
    [][/\ (lastCall'.op = "addNode" /\ lastCall'.auto)
          => /\ lastCall'.returned[1].position = ArrayPosition(nextPosition.x, nextPosition.y)
             /\ nextPosition' = [x |-> nextPosition.x + 200, y |-> nextPosition.y]
       /\ (lastCall'.op = "addNode" /\ ~lastCall'.auto)
          => /\ lastCall'.returned[1].position \in ExplicitPositions
             /\ nextPosition' = nextPosition
       /\ lastCall'.op \in {"addBranches", "connectNodes"} => nextPosition' = nextPosition
       /\ EvenlySpaced(placed')
      ]_vars

\* C16 witness: a node placed from the cursor, a node with a position, a
\* branch and its edge, and a second node placed from the cursor
C16_Witness ==
    /\ Len(nodes) = 4 /\ Len(placed) = 2
    /\ nodes[1].position = placed[1]
    /\ nodes[2].position \in ExplicitPositions
    /\ nodes[3].name = "B1"
    /\ nodes[4].position = placed[2]
    /\ EdgeCount(connections) = 1

\* C18: addBranches(sourceId, [b_0 .. b_{n-1}]) with a source at (sx, sy)
\* appends n nodes in input order, b_i at (sx + 200, sy + (i - floor(n/2)) * 140),
\* appends in order one edge per b_i, to its name, at output port 0 of the
\* source's entry, returns the n nodes in input order and leaves the cursor;
\* with n = 3 and sy = 240 the y-coordinates are 100, 240, 380.
C18_AddBranches ==
    [][(lastCall'.op = "addBranches" /\ NodeExists(nodes, lastCall'.source))
       => LET sourceNode == FindNode(nodes, lastCall'.source)
              branchTypes == lastCall'.branchTypes
              n == Len(branchTypes)
              before == Len(nodes)
          IN  /\ lastCall'.status = "ok"
              /\ Len(nodes') = before + n
              /\ SubSeq(nodes', 1, before) = nodes
              /\ \A i \in 0 .. (n - 1) :
                    /\ nodes'[before + i + 1].name = branchTypes[i + 1].name
                    /\ nodes'[before + i + 1].type = branchTypes[i + 1].type
                    /\ nodes'[before + i + 1].position =
                           ArrayPosition(sourceNode.position.x + 200,
                                         sourceNode.position.y + (i - (n \div 2)) * 140)
              /\ lastCall'.returned = SubSeq(nodes', before + 1, before + n)
              /\ DOMAIN connections' =
                     (DOMAIN connections) \cup (IF n > 0 THEN {sourceNode.name} ELSE {})
              /\ EdgesAt(connections', sourceNode.name, 0) =
                     EdgesAt(connections, sourceNode.name, 0)
                         \o [i \in 1 .. n |-> [node |-> branchTypes[i].name, type |-> "main",
                                                index |-> 0]]
              /\ \A name \in DOMAIN connections', port \in AllPorts :
                     (name # sourceNode.name \/ port # 0)
                         => EdgesAt(connections', name, port) = EdgesAt(connections, name, port)
              /\ nextPosition' = nextPosition
              /\ (n = 3 /\ sourceNode.position.y = 240)
                    => [i \in 1 .. 3 |-> lastCall'.returned[i].position.y] = <<100, 240, 380>>
      ]_vars

\* C18 witness: addBranches has added the fan B1, B2, B3 to the node "Log" that
\* addNode had placed at (100, 240)
C18_Witness ==
    /\ lastCall.op = "addBranches" /\ lastCall.status = "ok"
    /\ Len(nodes) = 4 /\ Len(lastCall.returned) = 3
    /\ lastCall.source = nodes[1].id /\ nodes[1].name = "Log"
    /\ [i \in 1 .. 3 |-> lastCall.returned[i].name] = <<"B1", "B2", "B3">>
    /\ [i \in 1 .. 3 |-> lastCall.returned[i].position.x] = <<300, 300, 300>>
    /\ [i \in 1 .. 3 |-> lastCall.returned[i].position.y] = <<100, 240, 380>>
    /\ Len(EdgesAt(connections, "Log", 0)) = 3
    /\ nextPosition = [x |-> 300, y |-> 240]

\* the y-offset of branch j of n from its base
YOffset(basePosition, j, n) == calculateBranchPosition(basePosition, j, n).y - basePosition.y

\* C19: calculateBranchPosition(base, i, n) is
\* (base.x + 200, base.y + (i - floor(n/2)) * 140) for 0 <= i < n; over
\* i = 0 .. n-1 the y-offsets are n different values, symmetric around 0 when n
\* is odd, and the multiples of 140 from -(n/2)*140 to (n/2 - 1)*140 when n is
\* even: -140 and 0 for n = 2.
C19_BranchPosition ==
    phase = "placed"
        => LET base == original.basePosition
               i == original.branchIndex
               n == original.totalBranches
               offsets == {YOffset(base, j, n) : j \in 0 .. (n - 1)}
           IN  /\ output.position = [x |-> base.x + 200, y |-> base.y + (i - (n \div 2)) * 140]
               /\ Cardinality(offsets) = n
               /\ n % 2 = 1 => \A off \in offsets : (0 - off) \in offsets
               /\ n % 2 = 0 => offsets = {m * 140 : m \in (0 - (n \div 2)) .. ((n \div 2) - 1)}
               /\ n = 2 => offsets = {0 - 140, 0}

\* C19 witness: the first of two branches was placed 140 above its base
C19_Witness ==
    /\ phase = "placed"
    /\ original.totalBranches = 2 /\ original.branchIndex = 0
    /\ output.position.y = original.basePosition.y - 140

-----------------------------------------------------------------------------
(* Claims about validateWorkflowSpec *)

\* C4: whenever validateWorkflowSpec returns a spec, whatever the settings of
\* the input, the spec's settings.executionOrder is "v1".
C4_ValidatorForcesExecutionOrder ==
    (phase = "done" /\ output.status = "ok")
        => /\ HasKey(output.spec.settings, "executionOrder")
           /\ output.spec.settings["executionOrder"] = "v1"

\* C4 witness: a call whose input settings carried another executionOrder returned
C4_Witness ==
    /\ phase = "done" /\ output.status = "ok"
    /\ original.settings.kind = "object"
    /\ HasKey(original.settings.fields, "executionOrder")
    /\ original.settings.fields["executionOrder"] = "legacy"

\* C5 (the claim as stated): after the call, whether it returned or threw, the
\* input object has the value it had before the call.
C5_InputNotMutated ==
    phase = "done" => input = original

\* the nodes the call resolves connection endpoints against
NodesOf(in) == NormalizeNodes(in.nodes).nodes

\* an entry of the flat array names both its source and its target
Endpointed(conn) == ~FalsyStr(conn.source) /\ ~FalsyStr(conn.target)

\* both endpoints of the entry match a node by id or by name
Resolving(ns, conn) ==
    /\ Endpointed(conn)
    /\ \E i \in 1 .. Len(ns) : conn.source \in {ns[i].id, ns[i].name}
    /\ \E i \in 1 .. Len(ns) : conn.target \in {ns[i].id, ns[i].name}

\* the edges the entries from place i on contribute, in input order, to the
\* list at a port of a source name
RECURSIVE ExpectedEdges(_, _, _, _, _)
ExpectedEdges(ns, items, name, port, i) ==
    IF i > Len(items) THEN <<>>
    ELSE LET conn == items[i]
             here == /\ Resolving(ns, conn)
                     /\ FindByIdOrName(ns, conn.source).name = name
                     /\ (IF conn.sourceOutput = None THEN 0 ELSE conn.sourceOutput) = port
         IN  (IF here
              THEN <<[node |-> FindByIdOrName(ns, conn.target).name, type |-> "main",
                      index |-> IF conn.targetInput = None THEN 0 ELSE conn.targetInput]>>
              ELSE <<>>)
             \o ExpectedEdges(ns, items, name, port, i + 1)

\* the source names the resolving entries use
ExpectedSources(ns, items) ==
    {FindByIdOrName(ns, items[i].source).name :
        i \in {j \in 1 .. Len(items) : Resolving(ns, items[j])}}

\* the table of the claims: per source name and port the edges of the resolving
\* entries in input order, with as many ports as the largest port used needs
IsExpectedTable(table, ns, items) ==
    /\ DOMAIN table = ExpectedSources(ns, items)
    /\ \A name \in DOMAIN table :
          /\ Dense(table[name].main)
          /\ \A port \in DOMAIN table[name].main.at :
                table[name].main.at[port] = ExpectedEdges(ns, items, name, port, 1)
          /\ ExpectedEdges(ns, items, name, table[name].main.length - 1, 1) # <<>>
                \/ table[name].main.length = 1
          /\ \A port \in AllPorts :
                ExpectedEdges(ns, items, name, port, 1) # <<>> => port < table[name].main.length

\* nodes A, B, C with [{source:"A",target:"B"}, {source:"A",target:"C",sourceOutput:1}]
IsExampleABC(in) ==
    /\ in.kind = "object" /\ in.nodesKind = "array"
    /\ Len(in.nodes) = 3
    /\ <<in.nodes[1].name, in.nodes[2].name, in.nodes[3].name>> = <<"A", "B", "C">>
    /\ in.connections.kind = "array"
    /\ in.connections.items = <<Conn("A", "B", None, None), Conn("A", "C", 1, None)>>

\* { "A": { main: [[{node:"B",type:"main",index:0}], [{node:"C",type:"main",index:0}]] } }
TableABC ==
    [A |-> [main |-> [length |-> 2,
                      at |-> [i \in {0, 1} |-> IF i = 0 THEN <<EdgeTo("B", 0)>>
                                                        ELSE <<EdgeTo("C", 0)>>]]]]

RECURSIVE ResolvingOnly(_, _, _)
ResolvingOnly(ns, items, i) ==
    IF i > Len(items) THEN <<>>
    ELSE (IF Resolving(ns, items[i]) THEN <<items[i]>> ELSE <<>>)
         \o ResolvingOnly(ns, items, i + 1)

\* C7: when entries of a flat connections array name a source or a target that
\* matches no node, validateWorkflowSpec raises no error and returns the table
\* it returns for the array without those entries: no key and no port comes
\* from an omitted entry.
C7_LenientResolution ==
    (/\ phase = "done"
     /\ original.kind = "object" /\ original.nodesKind = "array"
     /\ NormalizeNodes(original.nodes).status = "ok"
     /\ original.connections.kind = "array"
     /\ \A i \in 1 .. Len(original.connections.items) :
           Endpointed(original.connections.items[i]))
        => LET kept == ResolvingOnly(NodesOf(original), original.connections.items, 1)
               without == [original EXCEPT !.connections.items = kept]
           IN  /\ output.status = "ok"
               /\ output.spec.connections = validateWorkflowSpec(without).spec.connections
               /\ IsExpectedTable(output.spec.connections, NodesOf(original), kept)

\* C7 witness: a call whose array held an entry to the missing node "Z" at
\* port 2 and an entry that resolves has returned
C7_Witness ==
    /\ phase = "done" /\ output.status = "ok"
    /\ original.connections.kind = "array"
    /\ original.connections.items = <<Conn("A", "Z", 2, None), Conn("A", "B", None, None)>>
    /\ "A" \in NodeNames(output.spec.nodes) /\ "B" \in NodeNames(output.spec.nodes)
    /\ output.spec.connections["A"].main.length = 1

\* the input is not an object, nodes is not an array, or an element of nodes
\* (null and non-objects included) lacks a string type or a string name
Malformed(in) ==
    \/ in.kind # "object"
    \/ in.nodesKind # "array"
    \/ \E i \in 1 .. Len(in.nodes) :
          \/ in.nodes[i].kind # "object"
          \/ in.nodes[i].type \in {Undefined, NotAString}
          \/ in.nodes[i].name \in {Undefined, NotAString}

\* C8 (the claim as stated): validateWorkflowSpec throws McpError InvalidParams
\* on every malformed input, and returns a spec on every input that is not
\* malformed and has no connections.
C8_InvalidInputRejected ==
    phase = "done"
        => /\ Malformed(original) => output.status = "InvalidParams"
           /\ (~Malformed(original) /\ original.connections.kind = "absent")
                 => output.status = "ok"

\* the names the edges of a table point to
TableTargets(table) ==
    UNION {IF HasKey(table[name], "main")
           THEN UNION {{table[name].main.at[port][i].node :
                           i \in 1 .. Len(table[name].main.at[port])} :
                       port \in DOMAIN table[name].main.at}
           ELSE {table[name].at[i].node : i \in DOMAIN table[name].at} :
           name \in DOMAIN table}

\* C11 (the claim as stated): whichever form the connections of the input
\* have, object or flat array, every edge of the returned table targets the
\* name of a node of the returned node list.
C11_EdgesTargetReturnedNodes ==
    (phase = "done" /\ output.status = "ok")
        => TableTargets(output.spec.connections) \subseteq NodeNames(output.spec.nodes)

\* a returned spec handed back as an input
AsInput(spec) ==
    RawInput("object", "array",
             [i \in 1 .. Len(spec.nodes) |->
                 [kind |-> "object", id |-> spec.nodes[i].id, type |-> spec.nodes[i].type,
                  name |-> spec.nodes[i].name, position |-> spec.nodes[i].position,
                  typeVersion |-> spec.nodes[i].typeVersion,
                  fields |-> Spread(spec.nodes[i].fields,
                                    [disabled |-> spec.nodes[i].disabled,
                                     parameters |-> spec.nodes[i].parameters])]],
             ObjectConnections(spec.connections), spec.name, ObjectSettings(spec.settings))

\* C20: for an input whose connections is a table T in the canonical form, over
\* any list of well-formed nodes, validateWorkflowSpec returns a spec whose
\* connections equal T, and validateWorkflowSpec of that spec returns a spec
\* whose connections equal T again.
C20_CanonicalTableKept ==
    (/\ phase = "done"
     /\ original.kind = "object" /\ original.nodesKind = "array"
     /\ NormalizeNodes(original.nodes).status = "ok"
     /\ original.connections.kind = "object")
        => /\ output.status = "ok"
           /\ output.spec.connections = original.connections.table
           /\ LET again == validateWorkflowSpec(AsInput(output.spec))
              IN  /\ again.status = "ok"
                  /\ again.spec.connections = original.connections.table
                  /\ again.spec.nodes = output.spec.nodes

\* C20 witness: a call on a table with an unused port 0 and two edges at port 1
\* has returned, for a node list that has only one of the nodes the table names
C20_Witness ==
    /\ phase = "done" /\ output.status = "ok"
    /\ original.connections.kind = "object"
    /\ "A" \in DOMAIN original.connections.table
    /\ original.connections.table["A"].main.length = 2
    /\ NodeNames(output.spec.nodes) = {"A"}
    /\ output.spec.connections = original.connections.table

-----------------------------------------------------------------------------
(* Claims about both *)

\* the ports of a table entry that hold edges
PortsInUse(entry) == {port \in DOMAIN entry.main.at : entry.main.at[port] # <<>>}

\* every index below the length holds an array and every port in use is below it
NoSparseHoles(table) ==
    \A name \in DOMAIN table :
        /\ table[name].main.length >= 1
        /\ Dense(table[name].main)
        /\ \A port \in PortsInUse(table[name]) : table[name].main.length >= port + 1

\* C12: no produced spec has a field tags or a field active: not the object
\* exportWorkflow() returns after any sequence of builder calls, setTags and
\* setActive with any arguments included, and not the object
\* validateWorkflowSpec returns, even for an input that carries the two fields.
C12_NoTagsNoActive ==
    /\ phase = "builder" => {"tags", "active"} \cap DOMAIN ExportedSpec = {}
    /\ (phase = "done" /\ output.status = "ok")
          => {"tags", "active"} \cap DOMAIN output.spec = {}

\* C12 witness: exportWorkflow() was called on a builder that holds two nodes
\* and an edge after setActive(true) and setTags(["tag-1", "tag-2"])
C12_Witness ==
    /\ lastCall.op = "exportWorkflow"
    /\ workflowActive = TRUE
    /\ workflowTags = <<"tag-1", "tag-2">>
    /\ Len(nodes) = 2 /\ EdgeCount(connections) = 1

\* C9: in every builder state, and in the table validateWorkflowSpec builds from
\* a flat connections array, every source name of the table has a main array
\* at least as long as the largest output index used for it plus one, with an
\* array (empty when unused) at every index below its length.
C9_NoSparseHoles ==
    /\ NoSparseHoles(connections)
    /\ (lastCall.op = "connectNodes" /\ lastCall.status = "ok")
          => connections[FindNode(nodes, lastCall.source).name].main.length
                 >= lastCall.index + 1
    /\ (phase = "done" /\ output.status = "ok" /\ original.connections.kind = "array")
          => /\ NoSparseHoles(output.spec.connections)
             /\ \A i \in 1 .. Len(original.connections.items) :
                   LET conn == original.connections.items[i]
                   IN  Resolving(output.spec.nodes, conn)
                          => output.spec.connections[
                                 FindByIdOrName(output.spec.nodes, conn.source).name
                             ].main.length >= OrZero(conn.sourceOutput) + 1

\* C9 witness: an edge sits at port 2 of a source whose ports 0 and 1 are unused
C9_Witness ==
    \E name \in DOMAIN connections :
        /\ connections[name].main.length = 3
        /\ PortsInUse(connections[name]) = {2}

-----------------------------------------------------------------------------
(* Claims about the nodes and the settings validateWorkflowSpec returns *)

\* C21 (the claim as stated): every node of a returned spec has its position
\* in the ordered-pair form [x, y], whether the node of the input gave its
\* position as a pair, as an {x, y} record, or gave none.
C21_PositionsArePairs ==
    (phase = "done" /\ output.status = "ok")
        => \A i \in 1 .. Len(output.spec.nodes) : output.spec.nodes[i].position.form = "array"

\* the optional fields the WorkflowNode interface lists
OptionalFields ==
    {"parameters", "credentials", "webhookId", "continueOnFail", "onError",
     "alwaysOutputData", "retryOnFail", "maxTries", "waitBetweenTries", "executeOnce",
     "notesInFlow", "notes"}

\* the value the returned node carries for an optional field, if it carries one
Carries(node, k, v) ==
    IF k = "parameters" THEN node.parameters = v
    ELSE HasKey(node.fields, k) /\ node.fields[k] = v

\* C22 (the claim as stated): for each node of the input, the returned node
\* keeps a supplied id, has typeVersion 1 and disabled false when the input
\* gave none, and carries every optional field present on the node of the
\* input with the same value.
C22_NodeFieldsCarried ==
    (phase = "done" /\ output.status = "ok")
        => \A i \in 1 .. Len(original.nodes) :
              LET node == original.nodes[i]
                  out == output.spec.nodes[i]
              IN  /\ ~FalsyStr(node.id) => out.id = node.id
                  /\ node.typeVersion = None => out.typeVersion = 1
                  /\ ~HasKey(node.fields, "disabled") => out.disabled = FALSE
                  /\ \A k \in DOMAIN node.fields \cap OptionalFields :
                        Carries(out, k, node.fields[k])

\* C23 (the claim as stated): the returned settings are the caller's settings
\* merged over the default record: each field the caller set has the caller's
\* value and each default field the caller left out has its default value.
C23_SettingsMergedOverDefaults ==
    (phase = "done" /\ output.status = "ok" /\ original.settings.kind = "object")
        => /\ \A k \in DOMAIN original.settings.fields \ {"executionOrder"} :
                 /\ HasKey(output.spec.settings, k)
                 /\ output.spec.settings[k] = original.settings.fields[k]
           /\ \A k \in DOMAIN DefaultSettings \ DOMAIN original.settings.fields :
                 /\ HasKey(output.spec.settings, k)
                 /\ output.spec.settings[k] = DefaultSettings[k]

-----------------------------------------------------------------------------
(* utils/validation, the earlier version: connections are returned as      *)
(* {main: {<source name>: [edges]}}, and a bare edge array under main is   *)
(* given to a source the function picks                                    *)

\* type.includes("trigger"), over the types the inputs use
IncludesTrigger(type) == type \in {"trigger.manual", "webhook.trigger"}

\* normalizedNodes.find by id, and by name if no id matches, when one is found
LegacyFind(ns, ref) ==
    IF \E i \in 1 .. Len(ns) : ns[i].id = ref
    THEN ns[CHOOSE i \in 1 .. Len(ns) :
               ns[i].id = ref /\ \A j \in 1 .. (i - 1) : ns[j].id # ref]
    ELSE ns[CHOOSE i \in 1 .. Len(ns) :
               ns[i].name = ref /\ \A j \in 1 .. (i - 1) : ns[j].name # ref]

\* the body of input.connections.forEach for one entry whose endpoints are given
LegacyConvertEntry(ns, table, conn) ==
    IF ~Resolves(ns, conn.source) \/ ~Resolves(ns, conn.target)
    THEN table
    ELSE LET sourceNode == LegacyFind(ns, conn.source)
             targetNode == LegacyFind(ns, conn.target)
             entered == IF HasKey(table, sourceNode.name)
                        THEN table
                        ELSE SetKey(table, sourceNode.name, <<>>)
         IN  [entered EXCEPT ![sourceNode.name] =
                 Append(@, [node |-> targetNode.name, type |-> "main",
                            index |-> OrZero(conn.sourceOutput)])]

\* input.connections.forEach(...), from the 1-based place i on
RECURSIVE LegacyConvertArray(_, _, _, _)
LegacyConvertArray(ns, table, items, i) ==
    IF i > Len(items) THEN [status |-> "ok", connections |-> [main |-> table]]
    ELSE IF FalsyStr(items[i].source) \/ FalsyStr(items[i].target)
    THEN [status |-> "InvalidParams", connections |-> [main |-> table]]
    ELSE LegacyConvertArray(ns, LegacyConvertEntry(ns, table, items[i]), items, i + 1)

\* normalizedNodes.find(n => n.name === "Start" || n.name === "Trigger" ||
\* n.type.includes("trigger")) || normalizedNodes[0]
LegacySource(ns) ==
    LET likely == {i \in 1 .. Len(ns) :
                      \/ ns[i].name = "Start"
                      \/ ns[i].name = "Trigger"
                      \/ IncludesTrigger(ns[i].type)}
    IN  IF likely # {}
        THEN ns[CHOOSE i \in likely : \A j \in likely : i <= j]
        ELSE ns[1]

\* the connections of the result, by the shape of input.connections
LegacyConnections(ns, rawConnections) ==
    IF rawConnections.kind = "absent"
    THEN [status |-> "ok", connections |-> [main |-> EmptyObject]]
    ELSE IF rawConnections.kind = "mainArray"
    THEN [status |-> "ok",
          connections |->
              [main |-> IF Len(rawConnections.edges) > 0 /\ Len(ns) > 0
                        THEN SetKey(EmptyObject, LegacySource(ns).name, rawConnections.edges)
                        ELSE EmptyObject]]
    ELSE IF rawConnections.kind = "mainObject"
    THEN [status |-> "ok", connections |-> [main |-> rawConnections.table]]
    ELSE IF rawConnections.kind = "array"
    THEN LegacyConvertArray(ns, EmptyObject, rawConnections.items, 1)
    ELSE IF rawConnections.kind = "object"
    THEN [status |-> "ok", connections |-> [main |-> EmptyObject]]
    ELSE [status |-> "InvalidParams", connections |-> [main |-> EmptyObject]]

\* validateWorkflowSpec(input) of the earlier version: what it returns or throws
validateWorkflowSpecLegacy(in) ==
    IF in.kind # "object" THEN Thrown("InvalidParams")
    ELSE IF in.nodesKind # "array" THEN Thrown("InvalidParams")
    ELSE LET mapped == NormalizeNodes(in.nodes)
         IN  IF mapped.status # "ok" THEN Thrown(mapped.status)
             ELSE LET converted == LegacyConnections(mapped.nodes, in.connections)
                  IN  IF converted.status # "ok" THEN Thrown(converted.status)
                      ELSE [status |-> "ok",
                            spec |-> [name |-> IF FalsyStr(in.name) THEN "New Workflow" ELSE in.name,
                                      nodes |-> mapped.nodes,
                                      connections |-> converted.connections,
                                      settings |-> NormalizeSettings(in.settings)]]

\* the shapes of input.connections the earlier version tells apart
LegacyRaw(kind, edges, table, items) ==
    [kind |-> kind, edges |-> edges, table |-> table, items |-> items]

\* nodes by which the choice of a source is told: one named Start, one named
\* Trigger, one whose type contains "trigger", and one that is none of these
SourceNodes ==
    {RawNode("object", "idS", "action.log", "Start"),
     RawNode("object", "idT", "action.log", "Trigger"),
     RawNode("object", "idH", "webhook.trigger", "Hook"),
     RawNode("object", "idL", "action.log", "Log")}

LegacyConnectionInputs ==
    {LegacyRaw("absent", <<>>, EmptyObject, <<>>),
     LegacyRaw("other", <<>>, EmptyObject, <<>>),
     LegacyRaw("object", <<>>, EmptyObject, <<>>),
     LegacyRaw("mainArray", <<>>, EmptyObject, <<>>),
     LegacyRaw("mainArray", <<EdgeTo("Log", 0)>>, EmptyObject, <<>>),
     LegacyRaw("mainArray", <<EdgeTo("Log", 0), EdgeTo("Hook", 0)>>, EmptyObject, <<>>),
     LegacyRaw("mainObject", <<>>, [Start |-> <<EdgeTo("Log", 0)>>], <<>>),
     LegacyRaw("array", <<>>, EmptyObject, <<Conn("Start", "idL", 1, None)>>),
     LegacyRaw("array", <<>>, EmptyObject,
               <<Conn("Hook", "Log", None, 2), Conn("Hook", "Nobody", None, None)>>),
     LegacyRaw("array", <<>>, EmptyObject, <<Conn("Hook", Undefined, None, None)>>)}

LegacyInit ==
    /\ BuilderInit
    /\ phase = "legacy"
    /\ \E rawNodes \in SeqsUpTo(SourceNodes, MaxInNodes),
          rawConnections \in LegacyConnectionInputs,
          rawSettings \in {AbsentSettings, ObjectSettings([timezone |-> "UTC"])} :
          input = RawInput("object", "array", rawNodes, rawConnections, Undefined, rawSettings)
    /\ original = input
    /\ output = NoOutput
    /\ server = NoServer

ValidateLegacy ==
    /\ phase = "legacy"
    /\ output' = validateWorkflowSpecLegacy(input)
    /\ input' = IF validateWorkflowSpecLegacy(input).status = "ok"
                THEN InputAfter(input)
                ELSE input
    /\ phase' = "done"
    /\ UNCHANGED <<builderVars, original, server>>

SpecLegacy == LegacyInit /\ [][ValidateLegacy]_vars

\* the names of the nodes of ns at the places in the set
NamesAt(ns, places) == {ns[i].name : i \in places}

\* C24 (the claim as stated): a bare edge array with no source is assigned to
\* a source chosen by strict preference: a node named "Start" or "Trigger" if
\* the list has one anywhere, otherwise a node whose type contains "trigger",
\* otherwise the first node.
C24_SourceByStrictPreference ==
    (/\ phase = "done" /\ output.status = "ok"
     /\ original.connections.kind = "mainArray"
     /\ Len(original.connections.edges) > 0
     /\ Len(output.spec.nodes) > 0)
        => LET ns == output.spec.nodes
               named == {i \in 1 .. Len(ns) : ns[i].name \in {"Start", "Trigger"}}
               typed == {i \in 1 .. Len(ns) : IncludesTrigger(ns[i].type)}
               preferred == IF named # {} THEN NamesAt(ns, named)
                            ELSE IF typed # {} THEN NamesAt(ns, typed)
                            ELSE {ns[1].name}
           IN  \E name \in preferred :
                  output.spec.connections.main =
                      SetKey(EmptyObject, name, original.connections.edges)

-----------------------------------------------------------------------------
(* Claim about the object form whose entries are flat arrays *)

\* the elements of a dense array, in order
Elements(arr) == [i \in 1 .. arr.length |-> arr.at[i - 1]]

\* C25 (the claim as stated): when connections maps each source name to a flat
\* array of edges, the returned table has, for each of these sources, the entry
\* {main: [<the same edges, in the same order>]}: all edges at output port 0.
C25_FlatArraysConverted ==
    (/\ phase = "done"
     /\ original.kind = "object" /\ original.nodesKind = "array"
     /\ NormalizeNodes(original.nodes).status = "ok"
     /\ original.connections.kind = "object"
     /\ original.connections.table \in FlatTables)
        => /\ output.status = "ok"
           /\ output.spec.connections =
                 [name \in DOMAIN original.connections.table |->
                     [main |-> MainOf(<<Elements(original.connections.table[name])>>)]]

-----------------------------------------------------------------------------
(* Claim about the builder as an accumulator *)

\* the sequence a begins the sequence b
IsPrefix(a, b) == Len(a) <= Len(b) /\ \A i \in 1 .. Len(a) : a[i] = b[i]

\* C26 (the claim as stated): every public operation other than clear() leaves
\* the node list with the previous node list as a prefix and, for every source
\* name and output port, the edge list with the previous edge list as a prefix.
C26_MonotoneGrowth ==
    [][lastCall'.op # "clear"
       => /\ IsPrefix(nodes, nodes')
          /\ \A name \in DOMAIN connections, port \in AllPorts :
                IsPrefix(EdgesAt(connections, name, port), EdgesAt(connections', name, port))
      ]_vars

-----------------------------------------------------------------------------
(* index: the handler of CallToolRequestSchema, one call per request; the  *)
(* handler is async, so a call is suspended at its await and the steps of  *)
(* different calls interleave                                              *)

MaxRequests == 2
Requests == 1 .. MaxRequests

\* the tools whose case starts with if (!args.id)
IdTools ==
    {"get_workflow", "update_workflow", "delete_workflow", "activate_workflow",
     "deactivate_workflow", "get_execution", "delete_execution"}

\* the tools whose case has no check
ListTools == {"list_workflows", "list_executions", "list_nodes"}

\* the names the switch has a case for
KnownTools == IdTools \cup ListTools \cup {"create_workflow", "get_node_info"}

\* request.params.arguments: absent, or an object of which the handler reads
\* id, name, settings, nodes and connections
Args(kind, id, name, rawSettings, nodesKind, rawNodes, rawConnections) ==
    [kind |-> kind, id |-> id, name |-> name, settings |-> rawSettings,
     nodesKind |-> nodesKind, nodes |-> rawNodes, connections |-> rawConnections]

NoArgs == Args("absent", Undefined, Undefined, AbsentSettings, "absent", <<>>, AbsentConnections)

\* what a step throws: nothing, an McpError with its code, or another error
NoError == [kind |-> "none", code |-> "none"]

McpError(code) == [kind |-> "McpError", code |-> code]

OtherError(kind) == [kind |-> kind, code |-> "none"]

\* what the caller of the handler gets: a result, or the McpError thrown at it
NoReply == [kind |-> "none", code |-> "none", isError |-> FALSE]

Result == [kind |-> "result", code |-> "none", isError |-> FALSE]

\* mutant of Catch: every error is turned into a result with isError
CatchTurnsAllIntoResults(error) == [kind |-> "result", code |-> "none", isError |-> TRUE]

\* the catch of the handler: an McpError is thrown on, any other error is
\* returned as a result with isError true
Catch(error) ==
    IF error.kind = "McpError"
    THEN [kind |-> "error", code |-> error.code, isError |-> FALSE]
    ELSE [kind |-> "result", code |-> "none", isError |-> TRUE]

\* the catch around n8nApi.createWorkflow: any error becomes an InternalError
CreateCatch(error) == McpError("InternalError")

\* new WorkflowBuilder(): the fields of a fresh builder
FreshBuilder(defaultPosition) ==
    [nodes |-> <<>>, connections |-> EmptyObject, nextPosition |-> defaultPosition,
     workflowName |-> "New Workflow", workflowSettings |-> InitialBuilderSettings]

\* mutant of AllocBuilder: one builder object serves every call
AllocBuilderShared(builders) == 1

\* const builder = new WorkflowBuilder(): the object is a new one
AllocBuilder(builders) == Len(builders) + 1

\* a call the dispatcher has not received yet
IdleCall ==
    [pc |-> "idle", tool |-> Undefined, args |-> NoArgs, builder |-> 0,
     nodesMap |-> EmptyObject, lastX |-> 0, i |-> 0, j |-> 0,
     cause |-> "none", thrown |-> NoError, reply |-> NoReply,
     issued |-> 0, sent |-> EmptySpec]

\* the call ends with the error thrown inside the try block
Throw(call, cause, error) ==
    [call EXCEPT !.pc = "done", !.cause = cause, !.thrown = error, !.reply = Catch(error)]

\* the call reaches its await of the REST request
Await(call) == [call EXCEPT !.pc = "awaiting", !.issued = @ + 1]

\* the nodes the calls name: A with an id, B without, B at a position, and null
NodeA == RawNode("object", "idA", "action.log", "A")

NodeB == RawNode("object", Undefined, "action.log", "B")

NodeBPlaced == [NodeB EXCEPT !.position = ArrayPosition(500, 100)]

NullNode == RawNode("null", Undefined, Undefined, Undefined)

\* arguments of create_workflow
CreateArgs ==
    {NoArgs}
    \cup {Args("object", Undefined, name, rawSettings, "array", rawNodes, rawConnections) :
            name \in {Undefined},
            rawSettings \in {AbsentSettings, ObjectSettings([executionOrder |-> "legacy"])},
            rawNodes \in {<<NodeA>>, <<NodeA, NodeB>>, <<NodeA, NodeBPlaced>>, <<NullNode>>},
            rawConnections \in {AbsentConnections,
                                ArrayConnections(<<Conn("A", "B", 1, None)>>),
                                ArrayConnections(<<Conn("A", "B", None, 2),
                                                   Conn("A", "Z", None, None)>>)}}
    \cup {Args("object", Undefined, "My Workflow", AbsentSettings, "absent", <<>>,
               AbsentConnections)}

\* arguments of update_workflow
UpdateArgs ==
    {NoArgs}
    \cup {Args("object", id, Undefined, AbsentSettings, nodesKind, rawNodes, rawConnections) :
            id \in {Undefined, "7"},
            nodesKind \in {"array"},
            rawNodes \in {<<NodeA, NodeB>>, <<NullNode>>},
            rawConnections \in {AbsentConnections,
                                ArrayConnections(<<Conn("A", "B", 1, None)>>),
                                ArrayConnections(<<Conn("A", Undefined, None, None)>>)}}
    \cup {Args("object", "7", Undefined, AbsentSettings, "absent", <<>>, AbsentConnections)}

\* arguments of the other tools: none, an empty object, an id, a name
PlainArgs ==
    {NoArgs,
     Args("object", Undefined, Undefined, AbsentSettings, "absent", <<>>, AbsentConnections),
     Args("object", "7", "httpRequest", AbsentSettings, "absent", <<>>, AbsentConnections)}

ArgsOf(tool) ==
    IF tool = "create_workflow" THEN CreateArgs
    ELSE IF tool = "update_workflow" THEN UpdateArgs
    ELSE PlainArgs

ToolNames == KnownTools \cup {"no_such_tool"}

ServerInit ==
    /\ BuilderInit
    /\ phase = "server"
    /\ input = NoInput
    /\ original = NoInput
    /\ output = NoOutput
    /\ server = [calls |-> [r \in Requests |-> IdleCall],
                 builders |-> <<>>,
                 defaultPosition |-> DEFAULT_POSITION]

\* the call r after a step that leaves it as call
WithCall(r, call) == [server EXCEPT !.calls[r] = call]

\* a request arrives: const { name, arguments: args } = request.params
Receive(r) ==
    /\ server.calls[r].pc = "idle"
    /\ \E tool \in ToolNames :
          \E args \in ArgsOf(tool) :
              server' = WithCall(r, [IdleCall EXCEPT !.pc = "received", !.tool = tool,
                                                     !.args = args])
    /\ UNCHANGED <<builderVars, input, original, output, phase>>

\* case 'list_workflows', 'list_executions', 'list_nodes': up to the await
listTool(r) ==
    LET call == server.calls[r]
    IN  /\ call.pc = "received"
        /\ call.tool \in ListTools
        /\ server' = WithCall(r,
               IF call.tool = "list_executions" /\ call.args.kind = "absent"
               THEN Throw(call, "args", OtherError("TypeError"))
               ELSE Await(call))
        /\ UNCHANGED <<builderVars, input, original, output, phase>>

\* case 'get_workflow', 'delete_workflow', 'activate_workflow',
\* 'deactivate_workflow', 'get_execution', 'delete_execution': up to the await
idTool(r) ==
    LET call == server.calls[r]
    IN  /\ call.pc = "received"
        /\ call.tool \in IdTools \ {"update_workflow"}
        /\ server' = WithCall(r,
               IF call.args.kind = "absent"
               THEN Throw(call, "args", OtherError("TypeError"))
               ELSE IF FalsyStr(call.args.id)
               THEN Throw(call, "id", McpError("InvalidParams"))
               ELSE Await(call))
        /\ UNCHANGED <<builderVars, input, original, output, phase>>

\* the object update_workflow hands to validateWorkflowSpec
UpdateInput(args) ==
    RawInput("object", args.nodesKind, args.nodes,
             IF args.connections.kind = "absent"
             THEN ArrayConnections(<<>>)
             ELSE args.connections,
             Undefined, AbsentSettings)

\* case 'update_workflow': up to the await
updateWorkflow(r) ==
    LET call == server.calls[r]
        validated == validateWorkflowSpec(UpdateInput(call.args))
    IN  /\ call.pc = "received"
        /\ call.tool = "update_workflow"
        /\ server' = WithCall(r,
               IF call.args.kind = "absent"
               THEN Throw(call, "args", OtherError("TypeError"))
               ELSE IF FalsyStr(call.args.id)
               THEN Throw(call, "id", McpError("InvalidParams"))
               ELSE IF validated.status = "InvalidParams"
               THEN Throw(call, "spec", McpError("InvalidParams"))
               ELSE IF validated.status # "ok"
               THEN Throw(call, "spec", OtherError(validated.status))
               ELSE [Await(call) EXCEPT
                        !.sent = [name |-> validated.spec.name,
                                  nodes |-> validated.spec.nodes,
                                  connections |-> validated.spec.connections,
                                  settings |-> validated.spec.settings,
                                  staticData |-> [lastId |-> 1]]])
        /\ UNCHANGED <<builderVars, input, original, output, phase>>

\* case 'get_node_info': up to the await
getNodeInfo(r) ==
    LET call == server.calls[r]
    IN  /\ call.pc = "received"
        /\ call.tool = "get_node_info"
        /\ server' = WithCall(r,
               IF call.args.kind = "absent"
               THEN Throw(call, "args", OtherError("TypeError"))
               ELSE IF FalsyStr(call.args.name)
               THEN Throw(call, "name", McpError("InvalidParams"))
               ELSE Await(call))
        /\ UNCHANGED <<builderVars, input, original, output, phase>>

\* default: the name is the name of no tool
unknownTool(r) ==
    LET call == server.calls[r]
    IN  /\ call.pc = "received"
        /\ call.tool \notin KnownTools
        /\ server' = WithCall(r, Throw(call, "tool", McpError("MethodNotFound")))
        /\ UNCHANGED <<builderVars, input, original, output, phase>>

\* { ...defaultSettings, ...args.settings, executionOrder: 'v1' }, or defaultSettings
CreateSettings(rawSettings) ==
    IF rawSettings.kind = "absent"
    THEN InitialBuilderSettings
    ELSE SetKey(Spread(InitialBuilderSettings, rawSettings.fields), "executionOrder", "v1")

\* case 'create_workflow', up to the loop over args.nodes: the name, the new
\* builder, setName, setSettings, nodesMap and lastX
createWorkflowBegin(r) ==
    LET call == server.calls[r]
        ref == AllocBuilder(server.builders)
        fresh == FreshBuilder(server.defaultPosition)
        name == IF FalsyStr(call.args.name) THEN "New Workflow" ELSE call.args.name
        built == [fresh EXCEPT !.workflowName = name,
                               !.workflowSettings =
                                   Spread(@, CreateSettings(call.args.settings))]
    IN  /\ call.pc = "received"
        /\ call.tool = "create_workflow"
        /\ server' =
              IF call.args.kind = "absent"
              THEN WithCall(r, Throw(call, "args", OtherError("TypeError")))
              ELSE [server EXCEPT
                       !.builders = [k \in (DOMAIN @) \cup {ref} |->
                                        IF k = ref THEN built ELSE @[k]],
                       !.calls[r] = [call EXCEPT !.pc = "nodes", !.builder = ref,
                                                 !.args.name = name,
                                                 !.nodesMap = EmptyObject, !.lastX = 100]]
        /\ UNCHANGED <<builderVars, input, original, output, phase>>

\* one turn of for (const nodeData of args.nodes), or its failure to start
createWorkflowAddNode(r) ==
    LET call == server.calls[r]
        builder == server.builders[call.builder]
        nodeData == call.args.nodes[call.i + 1]
        placed1 == nodeData.position.form # "none"
        added == BuilderAddNode(builder.nodes, builder.nextPosition,
                                [id |-> Undefined,
                                 type |-> nodeData.type,
                                 name |-> nodeData.name,
                                 position |-> IF placed1 THEN nodeData.position
                                              ELSE ArrayPosition(call.lastX, 240),
                                 typeVersion |-> OrOne(nodeData.typeVersion)])
    IN  /\ call.pc = "nodes"
        /\ call.args.nodesKind # "array" \/ call.i < Len(call.args.nodes)
        /\ server' =
              IF call.args.nodesKind # "array" \/ nodeData.kind = "null"
              THEN WithCall(r, Throw(call, "nodes", OtherError("TypeError")))
              ELSE [server EXCEPT
                       !.builders[call.builder].nodes = added.nodes,
                       !.builders[call.builder].nextPosition = added.nextPosition,
                       !.calls[r].i = @ + 1,
                       !.calls[r].lastX = IF placed1 THEN @ ELSE @ + 200,
                       !.calls[r].nodesMap = SetKey(@, nodeData.name, added.node)]
        /\ UNCHANGED <<builderVars, input, original, output, phase>>

\* one turn of for (const conn of args.connections)
createWorkflowConnect(r) ==
    LET call == server.calls[r]
        builder == server.builders[call.builder]
        conn == call.args.connections.items[call.j + 1]
        found == HasKey(call.nodesMap, conn.source) /\ HasKey(call.nodesMap, conn.target)
        connected == BuilderConnect(builder.nodes, builder.connections,
                                    call.nodesMap[conn.source].id,
                                    call.nodesMap[conn.target].id,
                                    OrZero(conn.sourceOutput))
    IN  /\ call.pc = "nodes"
        /\ call.args.nodesKind = "array" /\ call.i = Len(call.args.nodes)
        /\ call.args.connections.kind = "array"
        /\ call.j < Len(call.args.connections.items)
        /\ server' =
              IF ~found
              THEN WithCall(r, [call EXCEPT !.j = @ + 1])
              ELSE IF connected.status # "ok"
              THEN WithCall(r, Throw(call, "connect", OtherError(connected.status)))
              ELSE [server EXCEPT
                       !.builders[call.builder].connections = connected.connections,
                       !.calls[r].j = @ + 1]
        /\ UNCHANGED <<builderVars, input, original, output, phase>>

\* builder.exportWorkflow() and the call of n8nApi.createWorkflow, up to the await
createWorkflowExport(r) ==
    LET call == server.calls[r]
        builder == server.builders[call.builder]
    IN  /\ call.pc = "nodes"
        /\ call.args.nodesKind = "array" /\ call.i = Len(call.args.nodes)
        /\ \/ call.args.connections.kind # "array"
           \/ call.j = Len(call.args.connections.items)
        /\ server' = WithCall(r,
               [Await(call) EXCEPT
                   !.sent = [name |-> builder.workflowName,
                             nodes |-> builder.nodes,
                             connections |-> builder.connections,
                             settings |-> builder.workflowSettings,
                             staticData |-> [lastId |-> 1]]])
        /\ UNCHANGED <<builderVars, input, original, output, phase>>

\* the awaited request ends: with a response, or with the error handleApiError
\* throws on; getNodeInfo catches the errors of its requests itself
restReply(r, ok) ==
    LET call == server.calls[r]
    IN  /\ call.pc = "awaiting"
        /\ server' = WithCall(r,
               IF ok \/ call.tool = "get_node_info"
               THEN [call EXCEPT !.pc = "done", !.reply = Result]
               ELSE IF call.tool = "create_workflow"
               THEN Throw(call, "rest", CreateCatch(OtherError("Error")))
               ELSE Throw(call, "rest", OtherError("Error")))
        /\ UNCHANGED <<builderVars, input, original, output, phase>>

ServerNext ==
    \E r \in Requests :
        \/ Receive(r)
        \/ listTool(r)
        \/ idTool(r)
        \/ updateWorkflow(r)
        \/ getNodeInfo(r)
        \/ unknownTool(r)
        \/ createWorkflowBegin(r)
        \/ createWorkflowAddNode(r)
        \/ createWorkflowConnect(r)
        \/ createWorkflowExport(r)
        \/ \E ok \in BOOLEAN : restReply(r, ok)

SpecServer == ServerInit /\ [][ServerNext]_vars

-----------------------------------------------------------------------------
(* Claims about the dispatcher *)

\* the edges of a table as triples of source name, output port and target name
EdgeTriples(table) ==
    UNION {UNION {{<<name, port, table[name].main.at[port][k].node>> :
                      k \in 1 .. Len(table[name].main.at[port])} :
                  port \in DOMAIN table[name].main.at} :
           name \in DOMAIN table}

\* the entries of a create_workflow request both of whose ends name a node of
\* the request
OwnEntries(args) ==
    IF args.connections.kind # "array" THEN {}
    ELSE {k \in 1 .. Len(args.connections.items) :
             /\ \E n \in 1 .. Len(args.nodes) :
                   args.nodes[n].name = args.connections.items[k].source
             /\ \E n \in 1 .. Len(args.nodes) :
                   args.nodes[n].name = args.connections.items[k].target}

\* a create_workflow call that has handed its spec to n8nApi.createWorkflow
HasSent(call) ==
    call.tool = "create_workflow" /\ call.pc \in {"awaiting", "done"} /\ call.issued > 0

\* C27: with the steps of two create_workflow requests interleaved in any
\* order, each call has a builder of its own, the spec each one sends has
\* exactly the nodes and the edges of its own request, and DEFAULT_POSITION
\* stays (100, 240).
C27_RequestsShareNoState ==
    phase = "server"
        => /\ server.defaultPosition = [x |-> 100, y |-> 240]
           /\ \A r1 \in Requests, r2 \in Requests :
                 (r1 # r2 /\ server.calls[r1].builder # 0)
                     => server.calls[r1].builder # server.calls[r2].builder
           /\ \A r \in Requests :
                 LET call == server.calls[r]
                     args == call.args
                 IN  HasSent(call)
                        => /\ Len(call.sent.nodes) = Len(args.nodes)
                           /\ \A n \in 1 .. Len(args.nodes) :
                                 /\ call.sent.nodes[n].name = args.nodes[n].name
                                 /\ call.sent.nodes[n].type = args.nodes[n].type
                           /\ EdgeTriples(call.sent.connections) =
                                 {<<args.connections.items[k].source,
                                    OrZero(args.connections.items[k].sourceOutput),
                                    args.connections.items[k].target>> :
                                       k \in OwnEntries(args)}
                           /\ EdgeCount(call.sent.connections) = Cardinality(OwnEntries(args))

\* C27 witness: call 2 created its builder first and has added one of its two
\* nodes; in between, call 1 created its builder, added its two nodes and its
\* edge and sent its spec
C27_Witness ==
    /\ phase = "server"
    /\ server.calls[2].builder = 1 /\ server.calls[1].builder = 2
    /\ server.calls[2].pc = "nodes" /\ server.calls[2].i = 1
    /\ Len(server.calls[2].args.nodes) = 2
    /\ HasSent(server.calls[1])
    /\ Len(server.calls[1].sent.nodes) = 2
    /\ EdgeCount(server.calls[1].sent.connections) = 1

\* the names of the nodes of a request differ from one another
UniqueNames(rawNodes) ==
    \A m \in 1 .. Len(rawNodes), n \in 1 .. Len(rawNodes) :
        rawNodes[m].name = rawNodes[n].name => m = n

\* C28 (the claim as stated): for nodes with unique names and a flat array of
\* entries that name nodes by name, the table create_workflow builds (one
\* addNode per node, one connectNodes per entry) equals the table
\* validateWorkflowSpec returns for the same nodes and entries, the index
\* field of each edge included.
C28_PathsBuildSameTable ==
    phase = "server"
        => \A r \in Requests :
              LET call == server.calls[r]
                  args == call.args
                  validated == validateWorkflowSpec(
                                   RawInput("object", "array", args.nodes, args.connections,
                                            Undefined, AbsentSettings))
              IN  (/\ HasSent(call)
                   /\ UniqueNames(args.nodes)
                   /\ args.connections.kind = "array"
                   /\ OwnEntries(args) = 1 .. Len(args.connections.items))
                      => /\ validated.status = "ok"
                         /\ call.sent.connections = validated.spec.connections

\* the arguments carry no id
WithoutId(args) == args.kind = "absent" \/ FalsyStr(args.id)

\* the caller got the McpError with this code
Raised(call, code) == call.reply = [kind |-> "error", code |-> code, isError |-> FALSE]

\* the caller got a result with isError true
ReturnedError(call) == call.reply = [kind |-> "result", code |-> "none", isError |-> TRUE]

\* C29 (the claim as stated): a tool that takes an id, called without an id,
\* raises InvalidParams before any request is issued, and a call that names an
\* unknown tool raises MethodNotFound without issuing a request.
C29_MissingIdRaisesInvalidParams ==
    phase = "server"
        => \A r \in Requests :
              LET call == server.calls[r]
              IN  /\ (call.tool \in IdTools /\ WithoutId(call.args))
                         => /\ call.issued = 0
                            /\ call.pc \in {"received", "done"}
                            /\ call.pc = "done" => Raised(call, "InvalidParams")
                  /\ (call.pc # "idle" /\ call.tool \notin KnownTools)
                         => /\ call.issued = 0
                            /\ call.pc \in {"received", "done"}
                            /\ call.pc = "done" => Raised(call, "MethodNotFound")

\* C30: every McpError raised while a call is handled reaches the caller as
\* that error; every other failure, a failed REST request of list_workflows
\* or update_workflow among them, is returned as a result with isError true;
\* a failed REST request of create_workflow reaches the caller as an
\* InternalError.
C30_ErrorsSurfaced ==
    phase = "server"
        => \A r \in Requests :
              LET call == server.calls[r]
              IN  call.pc = "done"
                     => /\ call.thrown.kind = "McpError" => Raised(call, call.thrown.code)
                        /\ call.thrown.kind \notin {"none", "McpError"} => ReturnedError(call)
                        /\ call.thrown.kind = "none" => call.reply = Result
                        /\ call.cause \in {"id", "name"} => Raised(call, "InvalidParams")
                        /\ call.cause = "tool" => Raised(call, "MethodNotFound")
                        /\ call.cause \in {"args", "nodes", "connect"} => ReturnedError(call)
                        /\ call.cause = "spec"
                              => \/ Raised(call, "InvalidParams")
                                 \/ ReturnedError(call)
                        /\ call.cause = "rest"
                              => IF call.tool = "create_workflow"
                                 THEN Raised(call, "InternalError")
                                 ELSE ReturnedError(call)

\* C30 witness: the REST request of a create_workflow call and the one of an
\* update_workflow call have failed, and both calls have ended
C30_Witness ==
    /\ phase = "server"
    /\ server.calls[1].pc = "done" /\ server.calls[1].tool = "create_workflow"
    /\ server.calls[1].cause = "rest" /\ Raised(server.calls[1], "InternalError")
    /\ server.calls[2].pc = "done" /\ server.calls[2].tool = "update_workflow"
    /\ server.calls[2].cause = "rest" /\ ReturnedError(server.calls[2])

=============================================================================
